---------------------------- MODULE Spec2Model ----------------------------
(***************************************************************************)
(* Lead capture webhook (webhook_api.py) and lead dashboard                *)
(* (dashboard_streamlit.py): the classifier, the two intake handlers, the  *)
(* spreadsheet they append to, the aggregate read endpoint and the         *)
(* dashboard's filtering and aggregation.                                  *)
(*                                                                         *)
(* Text is a sequence of one-character strings, so that upper(), strip(),  *)
(* startswith() and substring containment are computed, not assumed.       *)
(***************************************************************************)
EXTENDS Integers, Sequences, FiniteSets, TLC

VARIABLES
    cin,      \* classifier: the reference passed to identify_property_type
    cresW,    \* classifier: result of webhook_api.identify_property_type
    cresD,    \* classifier: result of dashboard_streamlit.identify_property_type
    store,    \* the spreadsheet: worksheet title -> [exists, rows]
    sheet,    \* dashboard: the worksheet as get_all_records() returns it
    sel,      \* dashboard: the sidebar selection of the last run of main()
    view,     \* dashboard: what the last run of main() displayed
    calls     \* client -> its request: where its handler stands, its answer

cvars == <<cin, cresW, cresD>>
svars == <<store, calls>>
dvars == <<sheet, sel, view>>
vars ==
    <<cin, cresW, cresD, store, sheet, sel, view, calls>>

(***************************************************************************)
(* Bounds of the model.                                                    *)
(***************************************************************************)
\* A classifier input is built from at most MaxWords words of Words.
MaxWords == 2
\* The worksheet the dashboard loads holds at most MaxRecords records.
MaxRecords == 2
\* A run of the service has at most MaxClients requests, one per client, in
\* progress one after the other or at the same time.
MaxClients == 2

(***************************************************************************)
(* Characters and Python's str methods.  The tables hold Python's data     *)
(* (Unicode 14) for every character a string of this module can hold; a    *)
(* character it cannot hold appears only as the result of a mapping and is *)
(* written by its code point, "U+0178".                                    *)
(***************************************************************************)
\* The characters whose str.upper() is one character, and that character.
LowerLetters ==
    <<"a","b","c","d","e","f","g","h","i","j","k","l","m","n","o","p","q","r","s","t","u","v",
      "w","x","y","z","µ","à","á","â","ã","ä","å","æ","ç","è","é","ê","ë","ì","í","î","ï","ð",
      "ñ","ò","ó","ô","õ","ö","ø","ù","ú","û","ü","ý","þ","ÿ","ƀ","ƃ","ƅ","ƈ","ƌ","ƒ","ƕ","ƙ",
      "ƚ","ƞ","ơ","ƣ","ƥ","ƨ","ƭ","ư","ƴ","ƶ","ƹ","ƽ","ƿ","ǅ","ǆ","ǈ","ǉ","ǋ","ǌ","ǎ","ǐ","ǒ",
      "ǔ","ǖ","ǘ","ǚ","ǜ","ǝ","ǟ","ǡ","ǣ","ǥ","ǧ","ǩ","ǫ","ǭ","ǯ","ǲ","ǳ","ǵ","ǹ","ǻ","ǽ","ǿ",
      "ʀ","ʂ","ʃ","ʇ","ʈ","ʉ","ʊ","ʋ","ʌ","ʒ","ʝ","ʞ","ά","έ","ή","ί","α","β","γ","δ","ε","ζ",
      "η","θ","ι","κ","λ","μ","ν","ξ","ο","π","ρ","ς","σ","τ","υ","φ","χ","ψ","ω","ϊ","ϋ","ό",
      "ύ","ώ","ϐ","ϑ","ϕ","ϖ","ϗ","ϙ","ϛ","ϝ","ϟ","ϡ","ϣ","ϥ","ϧ","ϩ","ϫ","ϭ","ϯ","ϰ","ϱ","ϲ",
      "ϳ","ϵ","ϸ","ϻ","ҁ","ҋ","ҍ","ҏ","ґ","ғ","ҕ","җ","ҙ","қ","ҝ","ҟ","ҡ","ң","ҥ","ҧ","ҩ","ҫ",
      "ҭ","ү","ұ","ҳ","ҵ","ҷ","ҹ","һ","ҽ","ҿ","ӂ","ӄ","ӆ","ӈ","ӊ","ӌ","ӎ","ӏ","ӑ","ӓ","ӕ","ӗ",
      "ә","ӛ","ӝ","ӟ","ӡ","ӣ","ӥ","ӧ","ө","ӫ","ӭ","ӯ","ӱ","ӳ","ӵ","ӷ","ӹ","ӻ","ӽ","ӿ","ր","ց",
      "ւ","փ","ք","օ","ֆ","ა","ბ","გ","დ","ე","ვ","ზ","თ","ი","კ","ლ","მ","ნ","ო","პ","ჟ","რ",
      "ს","ტ","უ","ფ","ქ","ღ","ყ","შ","ჩ","ც","ძ","წ","ჭ","ხ","ჯ","ჰ","ჱ","ჲ","ჳ","ჴ","ჵ","ჶ",
      "ჷ","ჸ","ჹ","ჺ","ჽ","ჾ","ჿ","ᏸ","ᏹ","ᏺ","ᏻ","ᏼ","ᏽ","ᲀ","ᲁ","ᲂ","ᲃ","ᲄ","ᲅ","ᲆ","ᲇ","ᲈ",
      "ᶎ","ẁ","ẃ","ẅ","ẇ","ẉ","ẋ","ẍ","ẏ","ẑ","ẓ","ẕ","ẛ","ạ","ả","ấ","ầ","ẩ","ẫ","ậ","ắ","ằ",
      "ẳ","ẵ","ặ","ẹ","ẻ","ẽ","ế","ề","ể","ễ","ệ","ỉ","ị","ọ","ỏ","ố","ồ","ổ","ỗ","ộ","ớ","ờ",
      "ở","ỡ","ợ","ụ","ủ","ứ","ừ","ử","ữ","ự","ỳ","ỵ","ỷ","ỹ","ỻ","ỽ","ỿ","ᾰ","ᾱ","ι","ῐ","ῑ",
      "ῠ","ῡ","ῥ","ↄ","ⓐ","ⓑ","ⓒ","ⓓ","ⓔ","ⓕ","ⓖ","ⓗ","ⓘ","ⓙ","ⓚ","ⓛ","ⓜ","ⓝ","ⓞ","ⓟ","ⓠ","ⓡ",
      "ⓢ","ⓣ","ⓤ","ⓥ","ⓦ","ⓧ","ⓨ","ⓩ","ⲁ","ⲃ","ⲅ","ⲇ","ⲉ","ⲋ","ⲍ","ⲏ","ⲑ","ⲓ","ⲕ","ⲗ","ⲙ","ⲛ",
      "ⲝ","ⲟ","ⲡ","ⲣ","ⲥ","ⲧ","ⲩ","ⲫ","ⲭ","ⲯ","ⲱ","ⲳ","ⲵ","ⲷ","ⲹ","ⲻ","ⲽ","ⲿ","ⳁ","ⳃ","ⳅ","ⳇ",
      "ⳉ","ⳋ","ⳍ","ⳏ","ⳑ","ⳓ","ⳕ","ⳗ","ⳙ","ⳛ","ⳝ","ⳟ","ⳡ","ⳣ","ⳬ","ⳮ","ⳳ","ꚁ","ꚃ","ꚅ","ꚇ","ꚉ",
      "ꚋ","ꚍ","ꚏ","ꚑ","ꚓ","ꚕ","ꚗ","ꚙ","ꚛ","ꞁ","ꞃ","ꞅ","ꞇ","ꞌ","ꞑ","ꞓ","ꞔ","ꞗ","ꞙ","ꞛ","ꞝ","ꞟ",
      "ꞡ","ꞣ","ꞥ","ꞧ","ꞩ","ꞵ","ꞷ","ꞹ","ꞻ","ꞽ","ꞿ","ꟁ","ꟃ","ꟈ","ꟊ","ꟑ","ꟗ","ꟙ","ꟶ","ꮀ","ꮁ","ꮂ",
      "ꮃ","ꮄ","ꮅ","ꮆ","ꮇ","ꮈ","ꮉ","ꮊ","ꮋ","ꮌ","ꮍ","ꮎ","ꮏ","ꮐ","ꮑ","ꮒ","ꮓ","ꮔ","ꮕ","ꮖ","ꮗ","ꮘ",
      "ꮙ","ꮚ","ꮛ","ꮜ","ꮝ","ꮞ","ꮟ","ꮠ","ꮡ","ꮢ","ꮣ","ꮤ","ꮥ","ꮦ","ꮧ","ꮨ","ꮩ","ꮪ","ꮫ","ꮬ","ꮭ","ꮮ",
      "ꮯ","ꮰ","ꮱ","ꮲ","ꮳ","ꮴ","ꮵ","ꮶ","ꮷ","ꮸ","ꮹ","ꮺ","ꮻ","ꮼ","ꮽ","ꮾ","ꮿ">>
UpperLetters ==
    <<"A","B","C","D","E","F","G","H","I","J","K","L","M","N","O","P","Q","R","S","T","U","V",
      "W","X","Y","Z","Μ","À","Á","Â","Ã","Ä","Å","Æ","Ç","È","É","Ê","Ë","Ì","Í","Î","Ï","Ð",
      "Ñ","Ò","Ó","Ô","Õ","Ö","Ø","Ù","Ú","Û","Ü","Ý","Þ","U+0178","U+0243","Ƃ","Ƅ","Ƈ","Ƌ","Ƒ",
      "Ƕ","Ƙ","U+023D","U+0220","Ơ","Ƣ","Ƥ","Ƨ","Ƭ","Ư","Ƴ","Ƶ","Ƹ","Ƽ","Ƿ","Ǆ","Ǆ","Ǉ","Ǉ","Ǌ",
      "Ǌ","Ǎ","Ǐ","Ǒ","Ǔ","Ǖ","Ǘ","Ǚ","Ǜ","Ǝ","Ǟ","Ǡ","Ǣ","Ǥ","Ǧ","Ǩ","Ǫ","Ǭ","Ǯ","Ǳ","Ǳ","Ǵ",
      "Ǹ","Ǻ","Ǽ","Ǿ","Ʀ","Ʂ","Ʃ","Ʇ","Ʈ","U+0244","Ʊ","Ʋ","U+0245","Ʒ","Ʝ","Ʞ","Ά","Έ","Ή","Ί",
      "Α","Β","Γ","Δ","Ε","Ζ","Η","Θ","Ι","Κ","Λ","Μ","Ν","Ξ","Ο","Π","Ρ","Σ","Σ","Τ","Υ","Φ",
      "Χ","Ψ","Ω","Ϊ","Ϋ","Ό","Ύ","Ώ","Β","Θ","Φ","Π","Ϗ","Ϙ","Ϛ","Ϝ","Ϟ","Ϡ","Ϣ","Ϥ","Ϧ","Ϩ",
      "Ϫ","Ϭ","Ϯ","Κ","Ρ","Ϲ","U+037F","Ε","Ϸ","Ϻ","Ҁ","Ҋ","Ҍ","Ҏ","Ґ","Ғ","Ҕ","Җ","Ҙ","Қ","Ҝ",
      "Ҟ","Ҡ","Ң","Ҥ","Ҧ","Ҩ","Ҫ","Ҭ","Ү","Ұ","Ҳ","Ҵ","Ҷ","Ҹ","Һ","Ҽ","Ҿ","Ӂ","Ӄ","Ӆ","Ӈ","Ӊ",
      "Ӌ","Ӎ","Ӏ","Ӑ","Ӓ","Ӕ","Ӗ","Ә","Ӛ","Ӝ","Ӟ","Ӡ","Ӣ","Ӥ","Ӧ","Ө","Ӫ","Ӭ","Ӯ","Ӱ","Ӳ","Ӵ",
      "Ӷ","Ӹ","Ӻ","Ӽ","Ӿ","U+0550","U+0551","U+0552","U+0553","U+0554","U+0555","U+0556","Ა",
      "Ბ","Გ","Დ","Ე","Ვ","Ზ","Თ","Ი","Კ","Ლ","Მ","Ნ","Ო","Პ","Ჟ","Რ","Ს","Ტ","Უ","Ფ","Ქ","Ღ",
      "Ყ","Შ","Ჩ","Ც","Ძ","Წ","Ჭ","Ხ","Ჯ","Ჰ","Ჱ","Ჲ","Ჳ","Ჴ","Ჵ","Ჶ","Ჷ","Ჸ","Ჹ","Ჺ","Ჽ","Ჾ",
      "Ჿ","Ᏸ","Ᏹ","Ᏺ","Ᏻ","Ᏼ","Ᏽ","U+0412","U+0414","U+041E","U+0421","U+0422","U+0422",
      "U+042A","U+0462","U+A64A","Ᶎ","Ẁ","Ẃ","Ẅ","Ẇ","Ẉ","Ẋ","Ẍ","Ẏ","Ẑ","Ẓ","Ẕ","U+1E60","Ạ",
      "Ả","Ấ","Ầ","Ẩ","Ẫ","Ậ","Ắ","Ằ","Ẳ","Ẵ","Ặ","Ẹ","Ẻ","Ẽ","Ế","Ề","Ể","Ễ","Ệ","Ỉ","Ị","Ọ",
      "Ỏ","Ố","Ồ","Ổ","Ỗ","Ộ","Ớ","Ờ","Ở","Ỡ","Ợ","Ụ","Ủ","Ứ","Ừ","Ử","Ữ","Ự","Ỳ","Ỵ","Ỷ","Ỹ",
      "Ỻ","Ỽ","Ỿ","Ᾰ","Ᾱ","Ι","Ῐ","Ῑ","Ῠ","Ῡ","Ῥ","Ↄ","Ⓐ","Ⓑ","Ⓒ","Ⓓ","Ⓔ","Ⓕ","Ⓖ","Ⓗ","Ⓘ","Ⓙ",
      "Ⓚ","Ⓛ","Ⓜ","Ⓝ","Ⓞ","Ⓟ","Ⓠ","Ⓡ","Ⓢ","Ⓣ","Ⓤ","Ⓥ","Ⓦ","Ⓧ","Ⓨ","Ⓩ","Ⲁ","Ⲃ","Ⲅ","Ⲇ","Ⲉ","Ⲋ",
      "Ⲍ","Ⲏ","Ⲑ","Ⲓ","Ⲕ","Ⲗ","Ⲙ","Ⲛ","Ⲝ","Ⲟ","Ⲡ","Ⲣ","Ⲥ","Ⲧ","Ⲩ","Ⲫ","Ⲭ","Ⲯ","Ⲱ","Ⲳ","Ⲵ","Ⲷ",
      "Ⲹ","Ⲻ","Ⲽ","Ⲿ","Ⳁ","Ⳃ","Ⳅ","Ⳇ","Ⳉ","Ⳋ","Ⳍ","Ⳏ","Ⳑ","Ⳓ","Ⳕ","Ⳗ","Ⳙ","Ⳛ","Ⳝ","Ⳟ","Ⳡ","Ⳣ",
      "Ⳬ","Ⳮ","Ⳳ","Ꚁ","Ꚃ","Ꚅ","Ꚇ","Ꚉ","Ꚋ","Ꚍ","Ꚏ","Ꚑ","Ꚓ","Ꚕ","Ꚗ","Ꚙ","Ꚛ","Ꞁ","Ꞃ","Ꞅ","Ꞇ","Ꞌ",
      "Ꞑ","Ꞓ","Ꞔ","Ꞗ","Ꞙ","Ꞛ","Ꞝ","Ꞟ","Ꞡ","Ꞣ","Ꞥ","Ꞧ","Ꞩ","Ꞵ","Ꞷ","Ꞹ","Ꞻ","Ꞽ","Ꞿ","Ꟁ","Ꟃ","Ꟈ",
      "Ꟊ","Ꟑ","Ꟗ","Ꟙ","Ꟶ","Ꮀ","Ꮁ","Ꮂ","Ꮃ","Ꮄ","Ꮅ","Ꮆ","Ꮇ","Ꮈ","Ꮉ","Ꮊ","Ꮋ","Ꮌ","Ꮍ","Ꮎ","Ꮏ","Ꮐ",
      "Ꮑ","Ꮒ","Ꮓ","Ꮔ","Ꮕ","Ꮖ","Ꮗ","Ꮘ","Ꮙ","Ꮚ","Ꮛ","Ꮜ","Ꮝ","Ꮞ","Ꮟ","Ꮠ","Ꮡ","Ꮢ","Ꮣ","Ꮤ","Ꮥ","Ꮦ",
      "Ꮧ","Ꮨ","Ꮩ","Ꮪ","Ꮫ","Ꮬ","Ꮭ","Ꮮ","Ꮯ","Ꮰ","Ꮱ","Ꮲ","Ꮳ","Ꮴ","Ꮵ","Ꮶ","Ꮷ","Ꮸ","Ꮹ","Ꮺ","Ꮻ","Ꮼ",
      "Ꮽ","Ꮾ","Ꮿ">>

\* The characters whose str.upper() is two or three characters, and those.
ExpandingLetters ==
    <<"ß","ǰ","ΐ","ΰ","և","ẖ","ẗ","ẘ","ẙ","ẚ","ᾀ","ᾁ","ᾂ","ᾃ","ᾄ","ᾅ","ᾆ","ᾇ","ᾈ","ᾉ","ᾊ","ᾋ",
      "ᾌ","ᾍ","ᾎ","ᾏ","ᾐ","ᾑ","ᾒ","ᾓ","ᾔ","ᾕ","ᾖ","ᾗ","ᾘ","ᾙ","ᾚ","ᾛ","ᾜ","ᾝ","ᾞ","ᾟ","ᾠ","ᾡ",
      "ᾢ","ᾣ","ᾤ","ᾥ","ᾦ","ᾧ","ᾨ","ᾩ","ᾪ","ᾫ","ᾬ","ᾭ","ᾮ","ᾯ","ᾲ","ᾳ","ᾴ","ᾶ","ᾷ","ᾼ","ῂ","ῃ",
      "ῄ","ῆ","ῇ","ῌ","ῒ","ΐ","ῖ","ῗ","ῢ","ΰ","ῤ","ῦ","ῧ","ῲ","ῳ","ῴ","ῶ","ῷ","ῼ">>
ExpandedCapitals ==
    <<<<"S","S">>,<<"J","U+030C">>,<<"Ι","U+0308","U+0301">>,<<"Υ","U+0308","U+0301">>,
      <<"U+0535","U+0552">>,<<"H","U+0331">>,<<"T","U+0308">>,<<"W","U+030A">>,<<"Y","U+030A">>,
      <<"A","ʾ">>,<<"U+1F08","Ι">>,<<"U+1F09","Ι">>,<<"U+1F0A","Ι">>,<<"U+1F0B","Ι">>,
      <<"U+1F0C","Ι">>,<<"U+1F0D","Ι">>,<<"U+1F0E","Ι">>,<<"U+1F0F","Ι">>,<<"U+1F08","Ι">>,
      <<"U+1F09","Ι">>,<<"U+1F0A","Ι">>,<<"U+1F0B","Ι">>,<<"U+1F0C","Ι">>,<<"U+1F0D","Ι">>,
      <<"U+1F0E","Ι">>,<<"U+1F0F","Ι">>,<<"U+1F28","Ι">>,<<"U+1F29","Ι">>,<<"U+1F2A","Ι">>,
      <<"U+1F2B","Ι">>,<<"U+1F2C","Ι">>,<<"U+1F2D","Ι">>,<<"U+1F2E","Ι">>,<<"U+1F2F","Ι">>,
      <<"U+1F28","Ι">>,<<"U+1F29","Ι">>,<<"U+1F2A","Ι">>,<<"U+1F2B","Ι">>,<<"U+1F2C","Ι">>,
      <<"U+1F2D","Ι">>,<<"U+1F2E","Ι">>,<<"U+1F2F","Ι">>,<<"U+1F68","Ι">>,<<"U+1F69","Ι">>,
      <<"U+1F6A","Ι">>,<<"U+1F6B","Ι">>,<<"U+1F6C","Ι">>,<<"U+1F6D","Ι">>,<<"U+1F6E","Ι">>,
      <<"U+1F6F","Ι">>,<<"U+1F68","Ι">>,<<"U+1F69","Ι">>,<<"U+1F6A","Ι">>,<<"U+1F6B","Ι">>,
      <<"U+1F6C","Ι">>,<<"U+1F6D","Ι">>,<<"U+1F6E","Ι">>,<<"U+1F6F","Ι">>,<<"Ὰ","Ι">>,
      <<"Α","Ι">>,<<"Ά","Ι">>,<<"Α","U+0342">>,<<"Α","U+0342","Ι">>,<<"Α","Ι">>,<<"Ὴ","Ι">>,
      <<"Η","Ι">>,<<"Ή","Ι">>,<<"Η","U+0342">>,<<"Η","U+0342","Ι">>,<<"Η","Ι">>,
      <<"Ι","U+0308","U+0300">>,<<"Ι","U+0308","U+0301">>,<<"Ι","U+0342">>,
      <<"Ι","U+0308","U+0342">>,<<"Υ","U+0308","U+0300">>,<<"Υ","U+0308","U+0301">>,
      <<"Ρ","U+0313">>,<<"Υ","U+0342">>,<<"Υ","U+0308","U+0342">>,<<"Ὼ","Ι">>,<<"Ω","Ι">>,
      <<"Ώ","Ι">>,<<"Ω","U+0342">>,<<"Ω","U+0342","Ι">>,<<"Ω","Ι">>>>

\* character -> its str.upper(), for the characters str.upper() changes
UpperMap ==
    [c \in {LowerLetters[i] : i \in 1..Len(LowerLetters)}
            \cup {ExpandingLetters[i] : i \in 1..Len(ExpandingLetters)} |->
        IF \E i \in 1..Len(ExpandingLetters) : ExpandingLetters[i] = c
        THEN ExpandedCapitals[CHOOSE i \in 1..Len(ExpandingLetters) :
                                 ExpandingLetters[i] = c]
        ELSE <<UpperLetters[CHOOSE i \in 1..Len(LowerLetters) : LowerLetters[i] = c]>>]

\* str.upper() on one character, as a string.
UpperChar(c) == IF c \in DOMAIN UpperMap THEN UpperMap[c] ELSE <<c>>

\* str.upper()
Upper(s) ==
    LET up[i \in 0..Len(s)] == IF i = 0 THEN <<>> ELSE up[i - 1] \o UpperChar(s[i])
    IN  up[Len(s)]

\* The characters str.lower() changes whatever surrounds them, and what it
\* makes of each (always one character).
CapitalLetters ==
    <<"A","B","C","D","E","F","G","H","I","J","K","L","M","N","O","P","Q","R","S","T","U","V",
      "W","X","Y","Z","À","Á","Â","Ã","Ä","Å","Æ","Ç","È","É","Ê","Ë","Ì","Í","Î","Ï","Ð","Ñ",
      "Ò","Ó","Ô","Õ","Ö","Ø","Ù","Ú","Û","Ü","Ý","Þ","Ɓ","Ƃ","Ƅ","Ɔ","Ƈ","Ɖ","Ɗ","Ƌ","Ǝ","Ə",
      "Ɛ","Ƒ","Ɠ","Ɣ","Ɩ","Ɨ","Ƙ","Ɯ","Ɲ","Ɵ","Ơ","Ƣ","Ƥ","Ʀ","Ƨ","Ʃ","Ƭ","Ʈ","Ư","Ʊ","Ʋ","Ƴ",
      "Ƶ","Ʒ","Ƹ","Ƽ","Ǆ","ǅ","Ǉ","ǈ","Ǌ","ǋ","Ǎ","Ǐ","Ǒ","Ǔ","Ǖ","Ǘ","Ǚ","Ǜ","Ǟ","Ǡ","Ǣ","Ǥ",
      "Ǧ","Ǩ","Ǫ","Ǭ","Ǯ","Ǳ","ǲ","Ǵ","Ƕ","Ƿ","Ǹ","Ǻ","Ǽ","Ǿ","Ά","Έ","Ή","Ί","Ό","Ύ","Ώ","Α",
      "Β","Γ","Δ","Ε","Ζ","Η","Θ","Ι","Κ","Λ","Μ","Ν","Ξ","Ο","Π","Ρ","Τ","Υ","Φ","Χ","Ψ","Ω",
      "Ϊ","Ϋ","Ϗ","Ϙ","Ϛ","Ϝ","Ϟ","Ϡ","Ϣ","Ϥ","Ϧ","Ϩ","Ϫ","Ϭ","Ϯ","ϴ","Ϸ","Ϲ","Ϻ","Ͻ","Ͼ","Ͽ",
      "Ҁ","Ҋ","Ҍ","Ҏ","Ґ","Ғ","Ҕ","Җ","Ҙ","Қ","Ҝ","Ҟ","Ҡ","Ң","Ҥ","Ҧ","Ҩ","Ҫ","Ҭ","Ү","Ұ","Ҳ",
      "Ҵ","Ҷ","Ҹ","Һ","Ҽ","Ҿ","Ӏ","Ӂ","Ӄ","Ӆ","Ӈ","Ӊ","Ӌ","Ӎ","Ӑ","Ӓ","Ӕ","Ӗ","Ә","Ӛ","Ӝ","Ӟ",
      "Ӡ","Ӣ","Ӥ","Ӧ","Ө","Ӫ","Ӭ","Ӯ","Ӱ","Ӳ","Ӵ","Ӷ","Ӹ","Ӻ","Ӽ","Ӿ","Ⴀ","Ⴁ","Ⴂ","Ⴃ","Ⴄ","Ⴅ",
      "Ⴆ","Ⴇ","Ⴈ","Ⴉ","Ⴊ","Ⴋ","Ⴌ","Ⴍ","Ⴎ","Ⴏ","Ⴐ","Ⴑ","Ⴒ","Ⴓ","Ⴔ","Ⴕ","Ⴖ","Ⴗ","Ⴘ","Ⴙ","Ⴚ","Ⴛ",
      "Ⴜ","Ⴝ","Ⴞ","Ⴟ","Ⴠ","Ⴡ","Ⴢ","Ⴣ","Ⴤ","Ⴥ","Ⴧ","Ⴭ","Ꭰ","Ꭱ","Ꭲ","Ꭳ","Ꭴ","Ꭵ","Ꭶ","Ꭷ","Ꭸ","Ꭹ",
      "Ꭺ","Ꭻ","Ꭼ","Ꭽ","Ꭾ","Ꭿ","Ꮀ","Ꮁ","Ꮂ","Ꮃ","Ꮄ","Ꮅ","Ꮆ","Ꮇ","Ꮈ","Ꮉ","Ꮊ","Ꮋ","Ꮌ","Ꮍ","Ꮎ","Ꮏ",
      "Ꮐ","Ꮑ","Ꮒ","Ꮓ","Ꮔ","Ꮕ","Ꮖ","Ꮗ","Ꮘ","Ꮙ","Ꮚ","Ꮛ","Ꮜ","Ꮝ","Ꮞ","Ꮟ","Ꮠ","Ꮡ","Ꮢ","Ꮣ","Ꮤ","Ꮥ",
      "Ꮦ","Ꮧ","Ꮨ","Ꮩ","Ꮪ","Ꮫ","Ꮬ","Ꮭ","Ꮮ","Ꮯ","Ꮰ","Ꮱ","Ꮲ","Ꮳ","Ꮴ","Ꮵ","Ꮶ","Ꮷ","Ꮸ","Ꮹ","Ꮺ","Ꮻ",
      "Ꮼ","Ꮽ","Ꮾ","Ꮿ","Ᏸ","Ᏹ","Ᏺ","Ᏻ","Ᏼ","Ᏽ","Ა","Ბ","Გ","Დ","Ე","Ვ","Ზ","Თ","Ი","Კ","Ლ","Მ",
      "Ნ","Ო","Პ","Ჟ","Რ","Ს","Ტ","Უ","Ფ","Ქ","Ღ","Ყ","Შ","Ჩ","Ც","Ძ","Წ","Ჭ","Ხ","Ჯ","Ჰ","Ჱ",
      "Ჲ","Ჳ","Ჴ","Ჵ","Ჶ","Ჷ","Ჸ","Ჹ","Ჺ","Ჽ","Ჾ","Ჿ","Ẁ","Ẃ","Ẅ","Ẇ","Ẉ","Ẋ","Ẍ","Ẏ","Ẑ","Ẓ",
      "Ẕ","ẞ","Ạ","Ả","Ấ","Ầ","Ẩ","Ẫ","Ậ","Ắ","Ằ","Ẳ","Ẵ","Ặ","Ẹ","Ẻ","Ẽ","Ế","Ề","Ể","Ễ","Ệ",
      "Ỉ","Ị","Ọ","Ỏ","Ố","Ồ","Ổ","Ỗ","Ộ","Ớ","Ờ","Ở","Ỡ","Ợ","Ụ","Ủ","Ứ","Ừ","Ử","Ữ","Ự","Ỳ",
      "Ỵ","Ỷ","Ỹ","Ỻ","Ỽ","Ỿ","ᾈ","ᾉ","ᾊ","ᾋ","ᾌ","ᾍ","ᾎ","ᾏ","ᾘ","ᾙ","ᾚ","ᾛ","ᾜ","ᾝ","ᾞ","ᾟ",
      "ᾨ","ᾩ","ᾪ","ᾫ","ᾬ","ᾭ","ᾮ","ᾯ","Ᾰ","Ᾱ","Ὰ","Ά","ᾼ","Ὲ","Έ","Ὴ","Ή","ῌ","Ῐ","Ῑ","Ὶ","Ί",
      "Ῠ","Ῡ","Ὺ","Ύ","Ῥ","Ὸ","Ό","Ὼ","Ώ","ῼ","Ↄ","Ⓐ","Ⓑ","Ⓒ","Ⓓ","Ⓔ","Ⓕ","Ⓖ","Ⓗ","Ⓘ","Ⓙ","Ⓚ",
      "Ⓛ","Ⓜ","Ⓝ","Ⓞ","Ⓟ","Ⓠ","Ⓡ","Ⓢ","Ⓣ","Ⓤ","Ⓥ","Ⓦ","Ⓧ","Ⓨ","Ⓩ","Ⲁ","Ⲃ","Ⲅ","Ⲇ","Ⲉ","Ⲋ","Ⲍ",
      "Ⲏ","Ⲑ","Ⲓ","Ⲕ","Ⲗ","Ⲙ","Ⲛ","Ⲝ","Ⲟ","Ⲡ","Ⲣ","Ⲥ","Ⲧ","Ⲩ","Ⲫ","Ⲭ","Ⲯ","Ⲱ","Ⲳ","Ⲵ","Ⲷ","Ⲹ",
      "Ⲻ","Ⲽ","Ⲿ","Ⳁ","Ⳃ","Ⳅ","Ⳇ","Ⳉ","Ⳋ","Ⳍ","Ⳏ","Ⳑ","Ⳓ","Ⳕ","Ⳗ","Ⳙ","Ⳛ","Ⳝ","Ⳟ","Ⳡ","Ⳣ","Ⳬ",
      "Ⳮ","Ⳳ","Ꚁ","Ꚃ","Ꚅ","Ꚇ","Ꚉ","Ꚋ","Ꚍ","Ꚏ","Ꚑ","Ꚓ","Ꚕ","Ꚗ","Ꚙ","Ꚛ","Ꞁ","Ꞃ","Ꞅ","Ꞇ","Ꞌ","Ɥ",
      "Ꞑ","Ꞓ","Ꞗ","Ꞙ","Ꞛ","Ꞝ","Ꞟ","Ꞡ","Ꞣ","Ꞥ","Ꞧ","Ꞩ","Ɦ","Ɜ","Ɡ","Ɬ","Ɪ","Ʞ","Ʇ","Ʝ","Ꭓ","Ꞵ",
      "Ꞷ","Ꞹ","Ꞻ","Ꞽ","Ꞿ","Ꟁ","Ꟃ","Ꞔ","Ʂ","Ᶎ","Ꟈ","Ꟊ","Ꟑ","Ꟗ","Ꟙ","Ꟶ">>
SmallLetters ==
    <<"a","b","c","d","e","f","g","h","i","j","k","l","m","n","o","p","q","r","s","t","u","v",
      "w","x","y","z","à","á","â","ã","ä","å","æ","ç","è","é","ê","ë","ì","í","î","ï","ð","ñ",
      "ò","ó","ô","õ","ö","ø","ù","ú","û","ü","ý","þ","U+0253","ƃ","ƅ","U+0254","ƈ","U+0256",
      "U+0257","ƌ","ǝ","U+0259","U+025B","ƒ","U+0260","U+0263","U+0269","U+0268","ƙ","U+026F",
      "U+0272","U+0275","ơ","ƣ","ƥ","ʀ","ƨ","ʃ","ƭ","ʈ","ư","ʊ","ʋ","ƴ","ƶ","ʒ","ƹ","ƽ","ǆ","ǆ",
      "ǉ","ǉ","ǌ","ǌ","ǎ","ǐ","ǒ","ǔ","ǖ","ǘ","ǚ","ǜ","ǟ","ǡ","ǣ","ǥ","ǧ","ǩ","ǫ","ǭ","ǯ","ǳ",
      "ǳ","ǵ","ƕ","ƿ","ǹ","ǻ","ǽ","ǿ","ά","έ","ή","ί","ό","ύ","ώ","α","β","γ","δ","ε","ζ","η",
      "θ","ι","κ","λ","μ","ν","ξ","ο","π","ρ","τ","υ","φ","χ","ψ","ω","ϊ","ϋ","ϗ","ϙ","ϛ","ϝ",
      "ϟ","ϡ","ϣ","ϥ","ϧ","ϩ","ϫ","ϭ","ϯ","θ","ϸ","ϲ","ϻ","U+037B","U+037C","U+037D","ҁ","ҋ",
      "ҍ","ҏ","ґ","ғ","ҕ","җ","ҙ","қ","ҝ","ҟ","ҡ","ң","ҥ","ҧ","ҩ","ҫ","ҭ","ү","ұ","ҳ","ҵ","ҷ",
      "ҹ","һ","ҽ","ҿ","ӏ","ӂ","ӄ","ӆ","ӈ","ӊ","ӌ","ӎ","ӑ","ӓ","ӕ","ӗ","ә","ӛ","ӝ","ӟ","ӡ","ӣ",
      "ӥ","ӧ","ө","ӫ","ӭ","ӯ","ӱ","ӳ","ӵ","ӷ","ӹ","ӻ","ӽ","ӿ","U+2D00","U+2D01","U+2D02",
      "U+2D03","U+2D04","U+2D05","U+2D06","U+2D07","U+2D08","U+2D09","U+2D0A","U+2D0B","U+2D0C",
      "U+2D0D","U+2D0E","U+2D0F","U+2D10","U+2D11","U+2D12","U+2D13","U+2D14","U+2D15","U+2D16",
      "U+2D17","U+2D18","U+2D19","U+2D1A","U+2D1B","U+2D1C","U+2D1D","U+2D1E","U+2D1F","U+2D20",
      "U+2D21","U+2D22","U+2D23","U+2D24","U+2D25","U+2D27","U+2D2D","U+AB70","U+AB71","U+AB72",
      "U+AB73","U+AB74","U+AB75","U+AB76","U+AB77","U+AB78","U+AB79","U+AB7A","U+AB7B","U+AB7C",
      "U+AB7D","U+AB7E","U+AB7F","ꮀ","ꮁ","ꮂ","ꮃ","ꮄ","ꮅ","ꮆ","ꮇ","ꮈ","ꮉ","ꮊ","ꮋ","ꮌ","ꮍ","ꮎ",
      "ꮏ","ꮐ","ꮑ","ꮒ","ꮓ","ꮔ","ꮕ","ꮖ","ꮗ","ꮘ","ꮙ","ꮚ","ꮛ","ꮜ","ꮝ","ꮞ","ꮟ","ꮠ","ꮡ","ꮢ","ꮣ","ꮤ",
      "ꮥ","ꮦ","ꮧ","ꮨ","ꮩ","ꮪ","ꮫ","ꮬ","ꮭ","ꮮ","ꮯ","ꮰ","ꮱ","ꮲ","ꮳ","ꮴ","ꮵ","ꮶ","ꮷ","ꮸ","ꮹ","ꮺ",
      "ꮻ","ꮼ","ꮽ","ꮾ","ꮿ","ᏸ","ᏹ","ᏺ","ᏻ","ᏼ","ᏽ","ა","ბ","გ","დ","ე","ვ","ზ","თ","ი","კ","ლ",
      "მ","ნ","ო","პ","ჟ","რ","ს","ტ","უ","ფ","ქ","ღ","ყ","შ","ჩ","ც","ძ","წ","ჭ","ხ","ჯ","ჰ",
      "ჱ","ჲ","ჳ","ჴ","ჵ","ჶ","ჷ","ჸ","ჹ","ჺ","ჽ","ჾ","ჿ","ẁ","ẃ","ẅ","ẇ","ẉ","ẋ","ẍ","ẏ","ẑ",
      "ẓ","ẕ","ß","ạ","ả","ấ","ầ","ẩ","ẫ","ậ","ắ","ằ","ẳ","ẵ","ặ","ẹ","ẻ","ẽ","ế","ề","ể","ễ",
      "ệ","ỉ","ị","ọ","ỏ","ố","ồ","ổ","ỗ","ộ","ớ","ờ","ở","ỡ","ợ","ụ","ủ","ứ","ừ","ử","ữ","ự",
      "ỳ","ỵ","ỷ","ỹ","ỻ","ỽ","ỿ","ᾀ","ᾁ","ᾂ","ᾃ","ᾄ","ᾅ","ᾆ","ᾇ","ᾐ","ᾑ","ᾒ","ᾓ","ᾔ","ᾕ","ᾖ",
      "ᾗ","ᾠ","ᾡ","ᾢ","ᾣ","ᾤ","ᾥ","ᾦ","ᾧ","ᾰ","ᾱ","U+1F70","U+1F71","ᾳ","U+1F72","U+1F73",
      "U+1F74","U+1F75","ῃ","ῐ","ῑ","U+1F76","U+1F77","ῠ","ῡ","U+1F7A","U+1F7B","ῥ","U+1F78",
      "U+1F79","U+1F7C","U+1F7D","ῳ","ↄ","ⓐ","ⓑ","ⓒ","ⓓ","ⓔ","ⓕ","ⓖ","ⓗ","ⓘ","ⓙ","ⓚ","ⓛ","ⓜ",
      "ⓝ","ⓞ","ⓟ","ⓠ","ⓡ","ⓢ","ⓣ","ⓤ","ⓥ","ⓦ","ⓧ","ⓨ","ⓩ","ⲁ","ⲃ","ⲅ","ⲇ","ⲉ","ⲋ","ⲍ","ⲏ","ⲑ",
      "ⲓ","ⲕ","ⲗ","ⲙ","ⲛ","ⲝ","ⲟ","ⲡ","ⲣ","ⲥ","ⲧ","ⲩ","ⲫ","ⲭ","ⲯ","ⲱ","ⲳ","ⲵ","ⲷ","ⲹ","ⲻ","ⲽ",
      "ⲿ","ⳁ","ⳃ","ⳅ","ⳇ","ⳉ","ⳋ","ⳍ","ⳏ","ⳑ","ⳓ","ⳕ","ⳗ","ⳙ","ⳛ","ⳝ","ⳟ","ⳡ","ⳣ","ⳬ","ⳮ","ⳳ",
      "ꚁ","ꚃ","ꚅ","ꚇ","ꚉ","ꚋ","ꚍ","ꚏ","ꚑ","ꚓ","ꚕ","ꚗ","ꚙ","ꚛ","ꞁ","ꞃ","ꞅ","ꞇ","ꞌ","U+0265","ꞑ",
      "ꞓ","ꞗ","ꞙ","ꞛ","ꞝ","ꞟ","ꞡ","ꞣ","ꞥ","ꞧ","ꞩ","U+0266","U+025C","U+0261","U+026C","U+026A",
      "ʞ","ʇ","ʝ","U+AB53","ꞵ","ꞷ","ꞹ","ꞻ","ꞽ","ꞿ","ꟁ","ꟃ","ꞔ","ʂ","ᶎ","ꟈ","ꟊ","ꟑ","ꟗ","ꟙ","ꟶ">>

\* character -> its str.lower(), for the characters of CapitalLetters
LowerMap ==
    [c \in {CapitalLetters[i] : i \in 1..Len(CapitalLetters)} |->
        SmallLetters[CHOOSE i \in 1..Len(CapitalLetters) : CapitalLetters[i] = c]]

\* str.lower() on one character that is not the capital sigma.
LowerChar(c) == IF c \in DOMAIN LowerMap THEN LowerMap[c] ELSE c

\* The characters with the Unicode property Case_Ignorable.
CaseIgnorable ==
    {"'",".",":","^","¨","­","¯","´","·","¸","ʰ","ʱ","ʲ","ʳ","ʴ","ʵ","ʶ","ʷ","ʸ","ʹ","ʺ","ʻ",
      "ʼ","ʽ","ʾ","ʿ","ˀ","ˁ","˂","˃","˄","˅","ˆ","ˇ","ˈ","ˉ","ˊ","ˋ","ˌ","ˍ","ˎ","ˏ","ː","ˑ",
      "˒","˓","˔","˕","˖","˗","˘","˙","˚","˛","˜","˝","˞","˟","ˠ","ˡ","ˢ","ˣ","ˤ","˥","˦","˧",
      "˨","˩","˪","˫","ˬ","˭","ˮ","˯","˰","˱","˲","˳","˴","˵","˶","˷","˸","˹","˺","˻","˼","˽",
      "˾","˿","΄","΅","·","҃","҄","҅","҆","҇","҈","҉","֑","֒","֓","֔","֕","֖","֗","֘","֙","֚",
      "֛","֜","֝","֞","֟","֠","֡","֢","֣","֤","֥","֦","֧","֨","֩","֪","֫","֬","֭","֮","֯","ְ",
      "ֱ","ֲ","ֳ","ִ","ֵ","ֶ","ַ","ָ","ֹ","ֺ","ֻ","ּ","ֽ","ֿ","ׁ","ׂ","ׄ","ׅ","ׇ","״","ۖ","ۗ",
      "ۘ","ۙ","ۚ","ۛ","ۜ","۝","۟","۠","ۡ","ۢ","ۣ","ۤ","ۥ","ۦ","ۧ","ۨ","۪","۫","۬","ۭ","ަ","ާ",
      "ި","ީ","ު","ޫ","ެ","ޭ","ޮ","ޯ","ް","߫","߬","߭","߮","߯","߰","߱","߲","߳","ߴ","ߵ","ߺ","߽",
      "࢈","࢐","࢑","࢘","࢙","࢚","࢛","࢜","࢝","࢞","࢟","ࣉ","࣊","࣋","࣌","࣍","࣎","࣏","࣐","࣑","࣒","࣓",
      "ࣔ","ࣕ","ࣖ","ࣗ","ࣘ","ࣙ","ࣚ","ࣛ","ࣜ","ࣝ","ࣞ","ࣟ","࣠","࣡","࣢","ࣣ","ࣤ","ࣥ","ࣦ","ࣧ","ࣨ","ࣩ",
      "࣪","࣫","࣬","࣭","࣮","࣯","ࣰ","ࣱ","ࣲ","ࣳ","ࣴ","ࣵ","ࣶ","ࣷ","ࣸ","ࣹ","ࣺ","ࣻ","ࣼ","ࣽ","ࣾ","ࣿ",
      "ঁ","়","ু","ূ","ৃ","ৄ","্","ৢ","ৣ","৾","ઁ","ં","઼","ુ","ૂ","ૃ","ૄ","ૅ","ે","ૈ","્","ૢ",
      "ૣ","ૺ","ૻ","ૼ","૽","૾","૿","ஂ","ீ","்","ಁ","಼","ಿ","ೆ","ೌ","್","ೢ","ೣ","ඁ","්","ි","ී",
      "ු","ූ","ັ","ິ","ີ","ຶ","ື","ຸ","ູ","຺","ົ","ຼ","ໆ","່","້","໊","໋","໌","ໍ","ྀ","ཱྀ","ྂ",
      "ྃ","྄","྆","྇","ྍ","ྎ","ྏ","ྐ","ྑ","ྒ","ྒྷ","ྔ","ྕ","ྖ","ྗ","ྙ","ྚ","ྛ","ྜ","ྜྷ","ྞ","ྟ",
      "ྠ","ྡ","ྡྷ","ྣ","ྤ","ྥ","ྦ","ྦྷ","ྨ","ྩ","ྪ","ྫ","ྫྷ","ྭ","ྮ","ྯ","ྰ","ྱ","ྲ","ླ","ྴ","ྵ",
      "ྶ","ྷ","ྸ","ྐྵ","ྺ","ྻ","ྼ","࿆","ႂ","ႅ","ႆ","ႍ","ႝ","ჼ","឴","឵","ិ","ី","ឹ","ឺ","ុ","ូ",
      "ួ","ំ","៉","៊","់","៌","៍","៎","៏","័","៑","្","៓","ៗ","៝","ᢅ","ᢆ","ᢩ","ᪧ","᪰","᪱","᪲",
      "᪳","᪴","᪵","᪶","᪷","᪸","᪹","᪺","᪻","᪼","᪽","᪾","ᪿ","ᫀ","᫁","᫂","᫃","᫄","᫅","᫆","᫇","᫈",
      "᫉","᫊","᫋","ᫌ","ᫍ","ᫎ","ᮀ","ᮁ","ᮢ","ᮣ","ᮤ","ᮥ","ᮨ","ᮩ","᮫","ᮬ","ᮭ","᯦","ᯨ","ᯩ","ᯭ","ᯯ",
      "ᯰ","ᯱ","᳐","᳑","᳒","᳔","᳕","᳖","᳗","᳘","᳙","᳚","᳛","᳜","᳝","᳞","᳟","᳠","᳢","᳣","᳤","᳥",
      "᳦","᳧","᳨","᳭","᳴","᳸","᳹","ᶛ","ᶜ","ᶝ","ᶞ","ᶟ","ᶠ","ᶡ","ᶢ","ᶣ","ᶤ","ᶥ","ᶦ","ᶧ","ᶨ","ᶩ",
      "ᶪ","ᶫ","ᶬ","ᶭ","ᶮ","ᶯ","ᶰ","ᶱ","ᶲ","ᶳ","ᶴ","ᶵ","ᶶ","ᶷ","ᶸ","ᶹ","ᶺ","ᶻ","ᶼ","ᶽ","ᶾ","ᶿ",
      "᷀","᷁","᷂","᷃","᷄","᷅","᷆","᷇","᷈","᷉","᷊","᷋","᷌","᷍","᷎","᷏","᷐","᷑","᷒","ᷓ","ᷔ","ᷕ",
      "ᷖ","ᷗ","ᷘ","ᷙ","ᷚ","ᷛ","ᷜ","ᷝ","ᷞ","ᷟ","ᷠ","ᷡ","ᷢ","ᷣ","ᷤ","ᷥ","ᷦ","ᷧ","ᷨ","ᷩ","ᷪ","ᷫ",
      "ᷬ","ᷭ","ᷮ","ᷯ","ᷰ","ᷱ","ᷲ","ᷳ","ᷴ","᷵","᷶","᷷","᷸","᷹","᷺","᷻","᷼","᷽","᷾","᷿","᾽","᾿",
      "῀","῁","῍","῎","῏","῝","῞","῟","῭","΅","`","´","῾","ₐ","ₑ","ₒ","ₓ","ₔ","ₕ","ₖ","ₗ","ₘ",
      "ₙ","ₚ","ₛ","ₜ","⃐","⃑","⃒","⃓","⃔","⃕","⃖","⃗","⃘","⃙","⃚","⃛","⃜","⃝","⃞","⃟","⃠","⃡",
      "⃢","⃣","⃤","⃥","⃦","⃧","⃨","⃩","⃪","⃫","⃬","⃭","⃮","⃯","⃰","⳯","⳰","⳱","ⷠ","ⷡ","ⷢ","ⷣ",
      "ⷤ","ⷥ","ⷦ","ⷧ","ⷨ","ⷩ","ⷪ","ⷫ","ⷬ","ⷭ","ⷮ","ⷯ","ⷰ","ⷱ","ⷲ","ⷳ","ⷴ","ⷵ","ⷶ","ⷷ","ⷸ","ⷹ",
      "ⷺ","ⷻ","ⷼ","ⷽ","ⷾ","ⷿ","゙","゚","゛","゜","ゝ","ゞ","ー","ヽ","ヾ","ꓸ","ꓹ","ꓺ","ꓻ","ꓼ","ꓽ","ꚜ",
      "ꚝ","ꚞ","ꚟ","꛰","꛱","ꞈ","꞉","꞊","ꟲ","ꟳ","ꟴ","ꟸ","ꟹ","꣄","ꣅ","꣠","꣡","꣢","꣣","꣤","꣥","꣦",
      "꣧","꣨","꣩","꣪","꣫","꣬","꣭","꣮","꣯","꣰","꣱","ꣿ","ꦀ","ꦁ","ꦂ","꦳","ꦶ","ꦷ","ꦸ","ꦹ","ꦼ","ꦽ",
      "ꧏ","ꧥ","ꧦ","ꪰ","ꪲ","ꪳ","ꪴ","ꪷ","ꪸ","ꪾ","꪿","꫁","ꫝ","ꫬ","ꫭ","ꫳ","ꫴ","꫶","ꯥ","ꯨ","꯭","﮲",
      "﮳","﮴","﮵","﮶","﮷","﮸","﮹","﮺","﮻","﮼","﮽","﮾","﮿","﯀","﯁","﯂","﻿","ﾞ","ﾟ","￣","￹","￺",
      "￻"}

\* The characters with the Unicode property Cased that no case mapping changes.
CasedUnchanged ==
    {"ª","º","ƍ","ƛ","ƪ","ƫ","ƺ","ƾ","ʁ","ʄ","ʅ","ʆ","ʍ","ʎ","ʏ","ʐ","ʑ","ʓ","ʕ","ʖ","ʗ","ʘ",
      "ʙ","ʚ","ʛ","ʜ","ʟ","ʠ","ʡ","ʢ","ʣ","ʤ","ʥ","ʦ","ʧ","ʨ","ʩ","ʪ","ʫ","ʬ","ʭ","ʮ","ʯ","ʰ",
      "ʱ","ʲ","ʳ","ʴ","ʵ","ʶ","ʷ","ʸ","ˀ","ˁ","ˠ","ˡ","ˢ","ˣ","ˤ","ϒ","ϓ","ϔ","ϼ","ֈ","ᶀ","ᶁ",
      "ᶂ","ᶃ","ᶄ","ᶅ","ᶆ","ᶇ","ᶈ","ᶉ","ᶊ","ᶋ","ᶌ","ᶍ","ᶏ","ᶐ","ᶑ","ᶒ","ᶓ","ᶔ","ᶕ","ᶖ","ᶗ","ᶘ",
      "ᶙ","ᶚ","ᶛ","ᶜ","ᶝ","ᶞ","ᶟ","ᶠ","ᶡ","ᶢ","ᶣ","ᶤ","ᶥ","ᶦ","ᶧ","ᶨ","ᶩ","ᶪ","ᶫ","ᶬ","ᶭ","ᶮ",
      "ᶯ","ᶰ","ᶱ","ᶲ","ᶳ","ᶴ","ᶵ","ᶶ","ᶷ","ᶸ","ᶹ","ᶺ","ᶻ","ᶼ","ᶽ","ᶾ","ᶿ","ẜ","ẝ","ẟ","ₐ","ₑ",
      "ₒ","ₓ","ₔ","ₕ","ₖ","ₗ","ₘ","ₙ","ₚ","ₛ","ₜ","ⳤ","ꚜ","ꚝ","ꞎ","ꞕ","ꞯ","ꟓ","ꟕ","ꟸ","ꟹ","ꟺ"}

\* The Unicode property Cased.
IsCased(c) ==
    c = "Σ" \/ c \in DOMAIN UpperMap \/ c \in DOMAIN LowerMap \/ c \in CasedUnchanged

\* The capital sigma at position i of s ends a word: the nearest character
\* before it that is not case-ignorable is cased, the nearest after it is not.
FinalSigma(s, i) ==
    LET before == {j \in 1..(i - 1) : s[j] \notin CaseIgnorable}
        after == {j \in (i + 1)..Len(s) : s[j] \notin CaseIgnorable}
    IN  /\ before # {}
        /\ IsCased(s[CHOOSE j \in before : \A k \in before : k <= j])
        /\ after = {} \/ ~IsCased(s[CHOOSE j \in after : \A k \in after : j <= k])

\* str.lower(): the capital sigma becomes the final sigma at the end of a word.
Lower(s) ==
    [i \in 1..Len(s) |->
        IF s[i] = "Σ" THEN (IF FinalSigma(s, i) THEN "ς" ELSE "σ")
        ELSE LowerChar(s[i])]

\* The characters for which str.isspace() holds, which are those \s matches.
Whitespace ==
    {"\t","\n","","\f","\r","","","",""," ",""," "," "}

\* str.isspace() of one character.
IsSpace(c) == c \in Whitespace

SetMin(S) == CHOOSE x \in S : \A y \in S : x <= y
SetMax(S) == CHOOSE x \in S : \A y \in S : x >= y

\* str.strip(): drops leading and trailing whitespace only.
Strip(s) ==
    LET keep == {i \in 1..Len(s) : ~IsSpace(s[i])}
    IN  IF keep = {} THEN <<>> ELSE SubSeq(s, SetMin(keep), SetMax(keep))

\* str.startswith(p)
StartsWith(s, p) == Len(s) >= Len(p) /\ SubSeq(s, 1, Len(p)) = p

\* p in s, for two strings: p occurs as a contiguous substring.
Contains(s, p) ==
    \E i \in 0..(Len(s) - Len(p)) : SubSeq(s, i + 1, i + Len(p)) = p

(***************************************************************************)
(* The literals of the source.                                             *)
(***************************************************************************)
W_CA == <<"C","A">>
W_AP == <<"A","P">>
W_TR == <<"T","R">>
W_CO == <<"C","O">>
W_CASA == <<"C","A","S","A">>
W_APARTAMENTO == <<"A","P","A","R","T","A","M","E","N","T","O">>
W_APT == <<"A","P","T">>
W_TERRENO == <<"T","E","R","R","E","N","O">>
W_COMERCIAL == <<"C","O","M","E","R","C","I","A","L">>
W_LOJA == <<"L","O","J","A">>
W_SALA == <<"S","A","L","A">>
W_LANCAMENTO_CED == <<"L","A","N","Ç","A","M","E","N","T","O">>
W_LANCAMENTO == <<"L","A","N","C","A","M","E","N","T","O">>
W_WIND_UP == <<"W","I","N","D"," ","O","C","E","A","N","I","C","A">>
W_TRESOR_UP ==
    <<"T","R","E","S","O","R"," ","C","A","M","B","O","I","N","H","A","S">>
\* valid_launches of captura_lancamento, and the names counted by the read side
WindOceanica == <<"W","i","n","d"," ","O","c","e","a","n","i","c","a">>
TresorCamboinhas ==
    <<"T","r","e","s","o","r"," ","C","a","m","b","o","i","n","h","a","s">>

\* The property types the classifier returns.
Casa == "Casa"
Apartamento == "Apartamento"
Terreno == "Terreno"
Comercial == "Comercial"
Lancamento == "Lançamento"
Outros == "Outros"
Indefinido == "Indefinido"

(***************************************************************************)
(* JSON / Python values: a string, None (JSON null) or False.              *)
(***************************************************************************)
StrV(s) == [k |-> "str", s |-> s]
NoneV == [k |-> "none", s |-> <<>>]
FalseV == [k |-> "false", s |-> <<>>]

\* Python truthiness, bool(v): "" , None and False are falsy.
Truthy(v) == v.k = "str" /\ v.s # <<>>

\* pandas.isna(v) for a scalar: None (and NaN) only; "" and False are not NA.
IsNa(v) == v.k = "none"

\* str(v)
PyStr(v) ==
    CASE v.k = "str" -> v.s
      [] v.k = "none" -> <<"N","o","n","e">>
      [] v.k = "false" -> <<"F","a","l","s","e">>

(***************************************************************************)
(* The classifier, webhook side.                                           *)
(***************************************************************************)
\* The rule chain with the keyword block moved ahead of the prefix block.
webhook_rules_keywords_first(ref) ==
    IF Contains(ref, W_CASA) THEN Casa
    ELSE IF Contains(ref, W_APARTAMENTO) \/ Contains(ref, W_APT) THEN Apartamento
    ELSE IF Contains(ref, W_TERRENO) THEN Terreno
    ELSE IF Contains(ref, W_COMERCIAL) \/ Contains(ref, W_LOJA)
            \/ Contains(ref, W_SALA) THEN Comercial
    ELSE IF Contains(ref, W_LANCAMENTO_CED) \/ Contains(ref, W_LANCAMENTO)
         THEN Lancamento
    ELSE IF StartsWith(ref, W_CA) THEN Casa
    ELSE IF StartsWith(ref, W_AP) THEN Apartamento
    ELSE IF StartsWith(ref, W_TR) THEN Terreno
    ELSE IF StartsWith(ref, W_CO) THEN Comercial
    ELSE IF ref \in {W_WIND_UP, W_TRESOR_UP} THEN Lancamento
    ELSE Outros

\* identify_property_type of webhook_api.py, after the "if not reference" test.
webhook_rules(ref) ==
    IF StartsWith(ref, W_CA) THEN Casa
    ELSE IF StartsWith(ref, W_AP) THEN Apartamento
    ELSE IF StartsWith(ref, W_TR) THEN Terreno
    ELSE IF StartsWith(ref, W_CO) THEN Comercial
    ELSE IF ref \in {W_WIND_UP, W_TRESOR_UP} THEN Lancamento
    ELSE IF Contains(ref, W_CASA) THEN Casa
    ELSE IF Contains(ref, W_APARTAMENTO) \/ Contains(ref, W_APT) THEN Apartamento
    ELSE IF Contains(ref, W_TERRENO) THEN Terreno
    ELSE IF Contains(ref, W_COMERCIAL) \/ Contains(ref, W_LOJA)
            \/ Contains(ref, W_SALA) THEN Comercial
    ELSE IF Contains(ref, W_LANCAMENTO_CED) \/ Contains(ref, W_LANCAMENTO)
         THEN Lancamento
    ELSE Outros

\* webhook_api.identify_property_type(reference)
identify_property_type(reference) ==
    IF ~Truthy(reference) THEN Indefinido
    ELSE webhook_rules(Strip(Upper(PyStr(reference))))

(***************************************************************************)
(* The classifier, dashboard side.                                         *)
(***************************************************************************)
\* identify_property_type of dashboard_streamlit.py, after the pd.isna test.
dashboard_rules(ref) ==
    IF StartsWith(ref, W_CA) THEN Casa
    ELSE IF StartsWith(ref, W_AP) THEN Apartamento
    ELSE IF StartsWith(ref, W_TR) THEN Terreno
    ELSE IF StartsWith(ref, W_CO) THEN Comercial
    ELSE IF ref \in {W_WIND_UP, W_TRESOR_UP} THEN Lancamento
    ELSE IF Contains(ref, W_CASA) THEN Casa
    ELSE IF Contains(ref, W_APARTAMENTO) \/ Contains(ref, W_APT) THEN Apartamento
    ELSE IF Contains(ref, W_TERRENO) THEN Terreno
    ELSE IF Contains(ref, W_COMERCIAL) \/ Contains(ref, W_LOJA)
            \/ Contains(ref, W_SALA) THEN Comercial
    ELSE IF Contains(ref, W_LANCAMENTO_CED) \/ Contains(ref, W_LANCAMENTO)
         THEN Lancamento
    ELSE Outros

\* dashboard_streamlit.identify_property_type(reference)
identify_property_type_dashboard(reference) ==
    IF IsNa(reference) THEN Indefinido
    ELSE dashboard_rules(Strip(Upper(PyStr(reference))))

(***************************************************************************)
(* Classifier inputs: every concatenation of at most MaxWords words.       *)
(***************************************************************************)
Words ==
    { <<"c","a">>, <<"A","p">>, <<"t","R">>, <<"C","o">>, <<"x">>, <<" ">>,
      <<"c","a","s","a">>, <<"a","p","t">>,
      <<"a","p","a","r","t","a","m","e","n","t","o">>,
      <<"T","e","r","r","e","n","o">>,
      <<"c","o","m","e","r","c","i","a","l">>,
      <<"L","o","j","a">>, <<"s","a","l","a">>, <<"ß","a","l","a">>, <<"\n">>,
      <<" ">>,
      <<"l","a","n","ç","a","m","e","n","t","o">>,
      <<"L","a","n","c","a","m","e","n","t","o">>,
      WindOceanica, TresorCamboinhas }

RECURSIVE Phrases(_)
Phrases(n) ==
    IF n = 0 THEN {<<>>}
    ELSE LET shorter == Phrases(n - 1)
         IN  shorter \cup {p \o w : p \in shorter, w \in Words}

ClassifierInputs == {StrV(s) : s \in Phrases(MaxWords)} \cup {NoneV, FalseV}

(***************************************************************************)
(* Request payloads: what request.get_json() yields.                       *)
(***************************************************************************)
\* A key the JSON object does not have.
AbsentV == [k |-> "absent", s |-> <<>>]

Keys ==
    {"user_name", "user_phone", "imovel_referencia", "lancamento",
     "visit_interest", "summary"}

T_Ana == <<"A","n","a">>
T_Phone == <<"+","5","5"," ","2","1">>
T_Sim == <<"S","i","m">>
T_Nao == <<"N","ã","o">>
T_Resumo == <<"o","k">>
T_Tower == WindOceanica \o <<" ","T","o","w","e","r">>
T_CA12 == <<"C","A","1","2">>

\* References and launch names a payload may carry.
PayloadRefs == {WindOceanica, TresorCamboinhas, T_Tower, Lower(WindOceanica), T_CA12}

\* A JSON object with the given values (AbsentV: the key is not there).
DictPayload(name, phone, refKey, ref, visit, summary) ==
    [kind |-> "dict",
     elems |-> {},
     val |-> [key \in Keys |->
                CASE key = "user_name" -> name
                  [] key = "user_phone" -> phone
                  [] key = "visit_interest" -> visit
                  [] key = "summary" -> summary
                  [] OTHER -> IF key = refKey THEN ref ELSE AbsentV]]

\* A body that is not a JSON object:
\*   "nojson"  no body, or not JSON: get_json() raises
\*   "none"    JSON null: get_json() returns None
\*   "number"  a JSON number or boolean
\*   "list"    a JSON array of strings, elems being the keys among them
OtherPayload(kind, elems) ==
    [kind |-> kind, elems |-> elems, val |-> [key \in Keys |-> AbsentV]]

NonObjectPayloads ==
    {OtherPayload("nojson", {}), OtherPayload("none", {}),
     OtherPayload("number", {}), OtherPayload("list", {}),
     OtherPayload("list", Keys)}

\* Every payload of the single-request specification.
Payloads ==
    {DictPayload(n, ph, rk, r, v, s) :
        n \in {AbsentV, StrV(<<>>), StrV(T_Ana)},
        ph \in {AbsentV, NoneV, StrV(T_Phone)},
        rk \in {"imovel_referencia", "lancamento"},
        r \in {AbsentV, StrV(<<>>)} \cup {StrV(x) : x \in PayloadRefs},
        v \in {AbsentV, FalseV, StrV(T_Sim), StrV(T_Nao)},
        s \in {AbsentV, StrV(<<>>), StrV(T_Resumo)}}
    \cup NonObjectPayloads

\* A JSON object with name, phone and summary filled in.
Filled(refKey, ref, visit) ==
    DictPayload(StrV(T_Ana), StrV(T_Phone), refKey, StrV(ref), StrV(visit),
                StrV(T_Resumo))

\* The payloads of the multi-request specification: a complete one for each
\* endpoint, one without summary, and JSON null.
SeqPayloads ==
    {Filled("imovel_referencia", T_CA12, T_Sim),
     Filled("lancamento", TresorCamboinhas, T_Sim),
     DictPayload(StrV(T_Ana), StrV(T_Phone), "imovel_referencia", StrV(T_CA12),
                 StrV(T_Sim), AbsentV),
     OtherPayload("none", {})}

\* `field in data`: "raise" stands for the TypeError of None or a number.
KeyIn(field, data) ==
    CASE data.kind = "dict" -> IF data.val[field] # AbsentV THEN "yes" ELSE "no"
      [] data.kind = "list" -> IF field \in data.elems THEN "yes" ELSE "no"
      [] OTHER -> "raise"

\* data[field] can be evaluated (a list raises TypeError on a str index).
CanIndex(data) == data.kind = "dict"

(***************************************************************************)
(* The validation loop of the two intake handlers.                         *)
(***************************************************************************)
required_fields_lancamento ==
    <<"user_name", "user_phone", "lancamento", "visit_interest", "summary">>
required_fields_geral ==
    <<"user_name", "user_phone", "imovel_referencia", "visit_interest", "summary">>

\* for field in required_fields: if field not in data or not data[field]: 400
\* Result: [r |-> "ok" | "missing" | "raise", field |-> the field reported]
RECURSIVE ValidateFrom(_, _, _)
ValidateFrom(i, fields, data) ==
    IF i > Len(fields) THEN [r |-> "ok", field |-> ""]
    ELSE LET f == fields[i]
             isin == KeyIn(f, data)
         IN  IF isin = "raise" THEN [r |-> "raise", field |-> f]
             ELSE IF isin = "no" THEN [r |-> "missing", field |-> f]
             ELSE IF ~CanIndex(data) THEN [r |-> "raise", field |-> f]
             ELSE IF ~Truthy(data.val[f]) THEN [r |-> "missing", field |-> f]
             ELSE ValidateFrom(i + 1, fields, data)

\* data = request.get_json() followed by the loop.
Validate(fields, data) ==
    IF data.kind = "nojson" THEN [r |-> "raise", field |-> ""]
    ELSE ValidateFrom(1, fields, data)

\* valid_launches of captura_lancamento
valid_launches == <<StrV(WindOceanica), StrV(TresorCamboinhas)>>

\* x in <list>: equality with some element.
InList(x, list) == \E i \in 1..Len(list) : list[i] = x

(***************************************************************************)
(* The spreadsheet and get_worksheet().                                    *)
(***************************************************************************)
\* worksheet_names of get_worksheet and of get_data_from_sheets, in order
worksheet_names == <<"Leads_Todos_Imoveis", "Leads_Lancamentos", "Sheet1">>
Titles == {worksheet_names[i] : i \in 1..Len(worksheet_names)}

\* A cell holding a fixed text of the source, kept as one token.
Cell(text) == StrV(<<text>>)

\* headers of setup_headers
headers ==
    <<Cell("Data/Hora"), Cell("Nome"), Cell("Telefone"), Cell("Imóvel/Referência"),
      Cell("Interesse Visita"), Cell("Resumo Conversa"), Cell("Origem"),
      Cell("ID"), Cell("Status"), Cell("Tipo Imóvel")>>

NoSheet == [exists |-> FALSE, rows |-> <<>>]
BlankSheet == [exists |-> TRUE, rows |-> <<>>]
HeaderSheet == [exists |-> TRUE, rows |-> <<headers>>]

\* What a call of the Google API may meet:
\*   "none"     the call succeeds
\*   "client"   credentials or open_by_key fail
\*   "lookup"   sheet.worksheet(name) raises
\*   "add"      add_worksheet raises
\*   "headers"  worksheet.update('A1:J1') raises
\*   "append"   append_row raises
\*   "read"     get_all_records raises

\* worksheet.update('A1:J1', [headers]): row 1 becomes the header row.
setup_headers(rows) ==
    IF rows = <<>> THEN <<headers>> ELSE [rows EXCEPT ![1] = headers]

\* append_row appending the row twice, as a retry after a lost reply would.
append_row_twice(rows, row_data) == Append(Append(rows, row_data), row_data)

\* worksheet.append_row(row_data): the row goes after the last row of the table.
append_row(rows, row_data) == Append(rows, row_data)

(***************************************************************************)
(* format_timestamp() and generate_id().                                   *)
(***************************************************************************)
Digits == <<"0","1","2","3","4","5","6","7","8","9">>
Pad2(n) == <<Digits[((n \div 10) % 10) + 1], Digits[(n % 10) + 1]>>
Pad4(n) == Pad2(n \div 100) \o Pad2(n % 100)

\* The instants (America/Sao_Paulo) at which a request may be handled.
Clock == {[Y |-> 2024, m |-> 1, d |-> 2, H |-> 9, M |-> 5, S |-> 59]}

\* The 4 random characters generate_id may draw.
RandomParts == {<<"A","7","Q","2">>}

\* now.strftime("%d/%m/%Y %H:%M:%S")
format_timestamp(now) ==
    StrV(Pad2(now.d) \o <<"/">> \o Pad2(now.m) \o <<"/">> \o Pad4(now.Y) \o <<" ">>
         \o Pad2(now.H) \o <<":">> \o Pad2(now.M) \o <<":">> \o Pad2(now.S))

\* f'IMV_{now.strftime("%Y%m%d%H%M%S")}_{random_part}'
generate_id(now, random_part) ==
    StrV(<<"I","M","V","_">> \o Pad4(now.Y) \o Pad2(now.m) \o Pad2(now.d)
         \o Pad2(now.H) \o Pad2(now.M) \o Pad2(now.S) \o <<"_">> \o random_part)

(***************************************************************************)
(* The answers of the handlers.                                            *)
(***************************************************************************)
\* {'status': 400, 'error': f'Campo obrigatório ausente: {field}'}
MissingFieldBody(field) ==
    [status |-> 400, error |-> [msg |-> "Campo obrigatório ausente", field |-> field]]
\* {'status': 400, 'error': 'Lançamento deve ser: ...'}
InvalidLaunchBody ==
    [status |-> 400, error |-> [msg |-> "Lançamento deve ser", field |-> ""]]
\* {'status': 500, 'error': 'Erro ao acessar planilha'}
NoWorksheetBody ==
    [status |-> 500, error |-> [msg |-> "Erro ao acessar planilha", field |-> ""]]
\* {'status': 500, 'error': str(e)} of the except clause
ExceptionBody ==
    [status |-> 500, error |-> [msg |-> "str(e)", field |-> ""]]

\* The answer of captura_lancamento after the append.
lancamento_capturado(data, row_data) ==
    [status |-> 200,
     message |-> "Lançamento capturado com sucesso",
     lead_id |-> row_data[8],
     lancamento |-> data.val["lancamento"],
     timestamp |-> row_data[1]]

\* The answer of captura_imovel_geral after the append.
imovel_capturado(data, row_data) ==
    [status |-> 200,
     message |-> "Imóvel capturado com sucesso",
     lead_id |-> row_data[8],
     imovel_referencia |-> data.val["imovel_referencia"],
     tipo_imovel |-> identify_property_type(data.val["imovel_referencia"]),
     timestamp |-> row_data[1]]

\* row_data of captura_lancamento
row_data_lancamento(data, env) ==
    <<format_timestamp(env.now), data.val["user_name"],
      data.val["user_phone"], data.val["lancamento"],
      data.val["visit_interest"], data.val["summary"],
      Cell("IA Gabriela - Lançamento"),
      generate_id(env.now_id, env.rnd), Cell("Novo"), Cell(Lancamento)>>

\* row_data of captura_imovel_geral
row_data_geral(data, env) ==
    <<format_timestamp(env.now), data.val["user_name"],
      data.val["user_phone"], data.val["imovel_referencia"],
      data.val["visit_interest"], data.val["summary"],
      Cell("IA Gabriela - Imóvel"),
      generate_id(env.now_id, env.rnd), Cell("Novo"),
      Cell(identify_property_type(data.val["imovel_referencia"]))>>

\* data['lancamento'] not in valid_launches, negated
launch_name_ok(data) == InList(data.val["lancamento"], valid_launches)

(***************************************************************************)
(* dados_dashboard(): the aggregate read endpoint.                         *)
(***************************************************************************)
\* worksheet.get_all_records(): row 1 gives the keys, every later row a record.
get_all_records(rows) ==
    IF rows = <<>> THEN <<>>
    ELSE [i \in 1..(Len(rows) - 1) |-> [keys |-> rows[1], vals |-> rows[i + 1]]]

\* row.get(key, default): with a repeated key the last column wins.
DictGet(row, key, default) ==
    LET hits == {i \in 1..Len(row.keys) : row.keys[i] = key}
    IN  IF hits = {} THEN default ELSE row.vals[SetMax(hits)]

\* The ties k + 1/2 (k in 0..99) of round((num / den) * 100) that round up to
\* k + 1: the double (num / den) * 100 lies above the tie, or on it with k odd.
\* num / den is the double nearest to (2k + 1) / 200 whatever num and den are.
PercentTiesUp ==
    {1, 3, 5, 7, 9, 11, 13, 15, 17, 19, 21, 23, 25, 27, 29, 31,
     33, 35, 37, 39, 41, 43, 45, 47, 49, 51, 53, 54, 55, 59, 61, 63,
     65, 67, 69, 71, 73, 75, 77, 79, 81, 83, 85, 87, 89, 91, 93, 95,
     97, 99}

\* round((num / den) * 100) for 0 <= num <= den: the nearest integer of the
\* double; off a tie that is the nearest integer of the fraction.
PyRoundPercent(num, den) ==
    LET q == (100 * num) \div den
        r == (100 * num) % den
    IN  IF 2 * r < den THEN q
        ELSE IF 2 * r > den THEN q + 1
        ELSE IF q \in PercentTiesUp THEN q + 1 ELSE q

\* str(row.get('Interesse Visita', '')).lower() in ['true', 'sim', 'yes']
InterestWords == {<<"t","r","u","e">>, <<"s","i","m">>, <<"y","e","s">>}
HasInterest(row) ==
    Lower(PyStr(DictGet(row, Cell("Interesse Visita"), StrV(<<>>)))) \in InterestWords

\* tipos_count: the type cell of each record -> how many records carry it.
TiposCount(data) ==
    LET tipo(row) == DictGet(row, Cell("Tipo Imóvel"), Cell(Outros))
    IN  [c \in {tipo(data[i]) : i \in 1..Len(data)} |->
            Cardinality({i \in 1..Len(data) : tipo(data[i]) = c})]

\* The answer of dados_dashboard when get_all_records() is empty.
EmptyAnswer(now) == [status |-> 200, total_leads |-> 0, dados |-> <<>>]

\* The answer of dados_dashboard for a non-empty data.
FullAnswer(data, now) ==
    LET total_leads == Len(data)
        interesse_visita == Cardinality({i \in 1..Len(data) : HasInterest(data[i])})
        isWind(row) == DictGet(row, Cell("Imóvel/Referência"), NoneV) = StrV(WindOceanica)
        isTresor(row) ==
            DictGet(row, Cell("Imóvel/Referência"), NoneV) = StrV(TresorCamboinhas)
    IN  [status |-> 200,
         total_leads |-> total_leads,
         interesse_visita |-> interesse_visita,
         taxa_interesse |-> IF total_leads > 0
                            THEN PyRoundPercent(interesse_visita, total_leads) ELSE 0,
         wind_oceanica |-> Cardinality({i \in 1..Len(data) : isWind(data[i])}),
         tresor_camboinhas |-> Cardinality({i \in 1..Len(data) : isTresor(data[i])}),
         tipos_imovel |-> TiposCount(data),
         dados |-> data,
         ultima_atualizacao |-> format_timestamp(now)]

(***************************************************************************)
(* The dashboard: get_data_from_sheets().                                  *)
(***************************************************************************)
\* The decimal digits (Unicode category Nd, what \d matches and int() reads):
\* DecimalDigits[v + 1] holds the digits of value v.
DecimalDigits ==
    <<{"0","۰","߀","০","૦","௦","೦","෦","໐","႐","០","᧐","᪀","᪐","᮰","꣐","꧐","꧰","꯰"},
      {"1","۱","߁","১","૧","௧","೧","෧","໑","႑","១","᧑","᪁","᪑","᮱","꣑","꧑","꧱","꯱"},
      {"2","۲","߂","২","૨","௨","೨","෨","໒","႒","២","᧒","᪂","᪒","᮲","꣒","꧒","꧲","꯲"},
      {"3","۳","߃","৩","૩","௩","೩","෩","໓","႓","៣","᧓","᪃","᪓","᮳","꣓","꧓","꧳","꯳"},
      {"4","۴","߄","৪","૪","௪","೪","෪","໔","႔","៤","᧔","᪄","᪔","᮴","꣔","꧔","꧴","꯴"},
      {"5","۵","߅","৫","૫","௫","೫","෫","໕","႕","៥","᧕","᪅","᪕","᮵","꣕","꧕","꧵","꯵"},
      {"6","۶","߆","৬","૬","௬","೬","෬","໖","႖","៦","᧖","᪆","᪖","᮶","꣖","꧖","꧶","꯶"},
      {"7","۷","߇","৭","૭","௭","೭","෭","໗","႗","៧","᧗","᪇","᪗","᮷","꣗","꧗","꧷","꯷"},
      {"8","۸","߈","৮","૮","௮","೮","෮","໘","႘","៨","᧘","᪈","᪘","᮸","꣘","꧘","꧸","꯸"},
      {"9","۹","߉","৯","૯","௯","೯","෯","໙","႙","៩","᧙","᪉","᪙","᮹","꣙","꧙","꧹","꯹"}>>
DigitMap ==
    [c \in UNION {DecimalDigits[i] : i \in 1..10} |->
        (CHOOSE i \in 1..10 : c \in DecimalDigits[i]) - 1]
IsDigit(c) == c \in DOMAIN DigitMap
DigitVal(c) == DigitMap[c]
Num2(s, i) == 10 * DigitVal(s[i]) + DigitVal(s[i + 1])

DaysInMonth(Y, m) ==
    IF m \in {4, 6, 9, 11} THEN 30
    ELSE IF m # 2 THEN 31
    ELSE IF (Y % 4 = 0 /\ Y % 100 # 0) \/ Y % 400 = 0 THEN 29 ELSE 28

\* NaT: what errors='coerce' leaves for a cell that does not parse.
NaT == [ok |-> FALSE, Y |-> 0, m |-> 0, d |-> 0, H |-> 0, M |-> 0, S |-> 0]

\* The first position from `from` on at which s holds the character c, 0 for none.
IndexOf(s, c, from) ==
    LET hits == {i \in from..Len(s) : s[i] = c}
    IN  IF hits = {} THEN 0 ELSE SetMin(hits)

\* c is one of the ASCII digits lo..hi: the character classes [0-1], [1-9], ...
\* of the format's regular expression hold ASCII digits only, \d any digit.
AsciiDigit(c, lo, hi) == \E v \in lo..hi : c = Digits[v + 1]

\* The value of a field of one or two digits.
NumVal(f) == IF Len(f) = 1 THEN DigitVal(f[1]) ELSE Num2(f, 1)

\* %d: 3[0-1] | [1-2]\d | 0[1-9] | [1-9] | a blank and [1-9]
IsDayField(f) ==
    \/ /\ Len(f) = 2
       /\ \/ f[1] = "3" /\ AsciiDigit(f[2], 0, 1)
          \/ AsciiDigit(f[1], 1, 2) /\ IsDigit(f[2])
          \/ f[1] = "0" /\ AsciiDigit(f[2], 1, 9)
          \/ f[1] = " " /\ AsciiDigit(f[2], 1, 9)
    \/ Len(f) = 1 /\ AsciiDigit(f[1], 1, 9)
DayVal(f) == IF f[1] = " " THEN DigitVal(f[2]) ELSE NumVal(f)

\* %m: 1[0-2] | 0[1-9] | [1-9]
IsMonthField(f) ==
    \/ /\ Len(f) = 2
       /\ \/ f[1] = "1" /\ AsciiDigit(f[2], 0, 2)
          \/ f[1] = "0" /\ AsciiDigit(f[2], 1, 9)
    \/ Len(f) = 1 /\ AsciiDigit(f[1], 1, 9)

\* %H: 2[0-3] | [0-1]\d | \d
IsHourField(f) ==
    \/ /\ Len(f) = 2
       /\ \/ f[1] = "2" /\ AsciiDigit(f[2], 0, 3)
          \/ AsciiDigit(f[1], 0, 1) /\ IsDigit(f[2])
    \/ Len(f) = 1 /\ IsDigit(f[1])

\* %M: [0-5]\d | \d
IsMinuteField(f) ==
    \/ Len(f) = 2 /\ AsciiDigit(f[1], 0, 5) /\ IsDigit(f[2])
    \/ Len(f) = 1 /\ IsDigit(f[1])

\* %S: 6[0-1] | [0-5]\d | \d
IsSecondField(f) ==
    \/ /\ Len(f) = 2
       /\ \/ f[1] = "6" /\ AsciiDigit(f[2], 0, 1)
          \/ AsciiDigit(f[1], 0, 5) /\ IsDigit(f[2])
    \/ Len(f) = 1 /\ IsDigit(f[1])

\* a <= b for two instants, field by field from the year down
InstantLE(a, b) ==
    LET ka == <<a.Y, a.m, a.d, a.H, a.M, a.S>>
        kb == <<b.Y, b.m, b.d, b.H, b.M, b.S>>
        diff == {i \in 1..6 : ka[i] # kb[i]}
    IN  diff = {} \/ ka[SetMin(diff)] < kb[SetMin(diff)]

\* The whole seconds a pandas Timestamp (nanoseconds in 64 bits) can hold.
TimestampMin == [ok |-> TRUE, Y |-> 1677, m |-> 9, d |-> 21, H |-> 0, M |-> 12, S |-> 44]
TimestampMax == [ok |-> TRUE, Y |-> 2262, m |-> 4, d |-> 11, H |-> 23, M |-> 47, S |-> 16]

\* pd.to_datetime(cell, format='%d/%m/%Y %H:%M:%S', errors='coerce'): the
\* whole cell has to match the regular expression of the format, day/month/
\* year, white space (\s+), hour:minute:second, and name an instant a
\* Timestamp can hold.  The fields hold no delimiter, so the delimiters fix
\* where each field lies.
to_datetime(cell) ==
    LET s == cell.s
        slash1 == IndexOf(s, "/", 1)
        slash2 == IF slash1 = 0 THEN 0 ELSE IndexOf(s, "/", slash1 + 1)
        afterYear == slash2 + 5
        timeAt == LET rest == {i \in afterYear..Len(s) : ~IsSpace(s[i])}
                  IN  IF rest = {} THEN 0 ELSE SetMin(rest)
        colon1 == IF timeAt = 0 THEN 0 ELSE IndexOf(s, ":", timeAt)
        colon2 == IF colon1 = 0 THEN 0 ELSE IndexOf(s, ":", colon1 + 1)
        fd == SubSeq(s, 1, slash1 - 1)
        fm == SubSeq(s, slash1 + 1, slash2 - 1)
        fY == SubSeq(s, slash2 + 1, slash2 + 4)
        fH == SubSeq(s, timeAt, colon1 - 1)
        fM == SubSeq(s, colon1 + 1, colon2 - 1)
        fS == SubSeq(s, colon2 + 1, Len(s))
        shaped ==
            /\ cell.k = "str"
            /\ slash1 > 0 /\ slash2 > 0
            /\ Len(s) >= slash2 + 4
            /\ timeAt > afterYear
            /\ colon1 > 0 /\ colon2 > 0
            /\ IsDayField(fd) /\ IsMonthField(fm)
            /\ \A i \in 1..4 : IsDigit(fY[i])
            /\ IsHourField(fH) /\ IsMinuteField(fM) /\ IsSecondField(fS)
    IN  IF ~shaped THEN NaT
        ELSE LET when == [ok |-> TRUE,
                          Y |-> 100 * Num2(fY, 1) + Num2(fY, 3),
                          m |-> NumVal(fm), d |-> DayVal(fd),
                          H |-> NumVal(fH), M |-> NumVal(fM), S |-> NumVal(fS)]
             IN  IF /\ when.m \in 1..12
                    /\ when.Y >= 1
                    /\ when.d \in 1..DaysInMonth(when.Y, when.m)
                    /\ when.H \in 0..23 /\ when.M \in 0..59 /\ when.S \in 0..59
                    /\ InstantLE(TimestampMin, when) /\ InstantLE(when, TimestampMax)
                 THEN when
                 ELSE NaT

\* .dt.date, as a number that orders dates
DateOf(when) == when.Y * 10000 + when.m * 100 + when.d

\* df['Interesse Visita'].str.lower().isin(['true', 'sim', 'yes'])
Interesse_Bool(cell) == cell.k = "str" /\ Lower(cell.s) \in InterestWords

\* The frame get_data_from_sheets() returns for the records of the worksheet:
\* the timestamp parsed, the interest flag added, and the type taken from the
\* 'Tipo Imóvel' column or, when the sheet has no such column, classified.
get_data_from_sheets(sh) ==
    [i \in 1..Len(sh.records) |->
        LET r == sh.records[i]
        IN  [when |-> to_datetime(r.ts),
             nome |-> r.nome,
             ref |-> r.ref,
             interesse |-> Interesse_Bool(r.visit),
             tipo |-> IF sh.hasTipo THEN r.tipo
                      ELSE Cell(identify_property_type_dashboard(r.ref))]]

(***************************************************************************)
(* The dashboard: main() and the aggregations it displays.                 *)
(***************************************************************************)
Indices(df) == 1..Len(df)
AllNaT(df) == \A i \in Indices(df) : ~df[i].when.ok
ParsedDates(df) == {DateOf(df[i].when) : i \in {j \in Indices(df) : df[j].when.ok}}

\* mask = (date >= periodo[0]) & (date <= periodo[1]); df = df[mask]
\* A comparison with NaT is False, so a row without a date is dropped.
PeriodMask(row, periodo) ==
    /\ row.when.ok
    /\ DateOf(row.when) >= periodo[1]
    /\ DateOf(row.when) <= periodo[2]

\* main(): the period filter, applied when some timestamp parsed and the
\* date_input holds both ends
ApplyPeriod(df, periodo) ==
    IF ~AllNaT(df) /\ Len(periodo) = 2
    THEN SelectSeq(df, LAMBDA row : PeriodMask(row, periodo))
    ELSE df

\* main(): the type filter
ApplyTipo(df, tipo_selecionado) ==
    IF tipo_selecionado # Cell("Todos")
    THEN SelectSeq(df, LAMBDA row : row.tipo = tipo_selecionado)
    ELSE df

\* The ties k + 1/2 tenths (k in 0..999) that f"{x:.1f}" prints as k + 1 for the
\* double x = num / den * 100: x lies above the tie, or on it with k odd.
TenthsTiesUp ==
    {0, 3, 6, 7, 8, 10, 13, 14, 15, 16, 17, 20, 23, 24, 27, 28,
     33, 34, 37, 38, 39, 41, 44, 46, 47, 48, 49, 50, 54, 56, 57, 58,
     61, 64, 65, 66, 67, 68, 69, 77, 79, 80, 81, 84, 85, 87, 91, 95,
     96, 97, 99, 100, 101, 106, 107, 110, 111, 114, 115, 116, 117, 121, 125, 126,
     127, 129, 130, 131, 133, 134, 135, 136, 137, 138, 139, 140, 147, 151, 155, 156,
     157, 159, 160, 161, 163, 165, 166, 167, 168, 169, 170, 171, 177, 180, 183, 185,
     187, 188, 190, 193, 195, 196, 197, 198, 199, 200, 201, 207, 210, 215, 217, 218,
     220, 223, 225, 226, 227, 228, 230, 231, 233, 237, 240, 245, 247, 248, 250, 253,
     255, 256, 257, 258, 260, 261, 263, 264, 265, 266, 267, 268, 269, 270, 271, 272,
     273, 274, 275, 276, 277, 278, 279, 280, 297, 305, 307, 308, 310, 313, 315, 317,
     318, 323, 324, 325, 327, 328, 329, 330, 333, 334, 335, 336, 337, 338, 339, 340,
     341, 343, 347, 353, 357, 358, 363, 367, 368, 369, 373, 374, 377, 378, 379, 383,
     384, 385, 387, 388, 389, 390, 393, 394, 395, 397, 398, 399, 400, 401, 403, 404,
     405, 407, 417, 418, 423, 427, 428, 429, 433, 434, 437, 438, 439, 443, 444, 447,
     448, 449, 450, 453, 454, 455, 457, 458, 459, 460, 461, 463, 464, 465, 466, 467,
     468, 477, 478, 483, 487, 488, 493, 494, 497, 498, 499, 527, 537, 543, 547, 548,
     553, 554, 557, 558, 559, 563, 564, 567, 568, 569, 573, 574, 575, 577, 578, 579,
     580, 583, 584, 585, 586, 587, 588, 589, 590, 591, 593, 594, 595, 596, 597, 598,
     599, 600, 601, 603, 604, 605, 606, 607, 608, 609, 610, 611, 612, 613, 614, 615,
     616, 617, 618, 619, 620, 621, 622, 623, 624, 644, 647, 649, 654, 657, 659, 664,
     667, 669, 671, 674, 676, 677, 679, 681, 684, 686, 687, 689, 691, 694, 696, 697,
     699, 701, 704, 706, 707, 708, 709, 711, 713, 714, 716, 717, 718, 719, 721, 723,
     724, 726, 727, 728, 729, 731, 733, 734, 735, 736, 737, 738, 739, 740, 741, 743,
     744, 745, 746, 747, 748, 749, 757, 767, 769, 774, 777, 779, 784, 787, 789, 794,
     796, 797, 799, 801, 804, 806, 807, 809, 811, 814, 816, 817, 819, 821, 824, 826,
     827, 829, 831, 833, 834, 836, 837, 838, 839, 841, 843, 844, 846, 847, 848, 849,
     851, 853, 854, 856, 857, 858, 859, 860, 861, 863, 864, 865, 866, 867, 868, 869,
     870, 871, 873, 874, 877, 887, 894, 897, 899, 904, 907, 909, 914, 917, 919, 921,
     924, 926, 927, 929, 931, 934, 936, 937, 939, 941, 944, 946, 947, 949, 951, 954,
     956, 957, 958, 959, 961, 963, 964, 966, 967, 968, 969, 971, 973, 974, 976, 977,
     978, 979, 981, 983, 984, 985, 986, 987, 988, 989, 990, 991, 993, 994, 995, 996,
     997, 998, 999}

\* f"{taxa_interesse:.1f}" for taxa_interesse = interesse_leads / total_leads
\* * 100: the rate in tenths of a percent, as printed.
RateTenths(num, den) ==
    LET q == (1000 * num) \div den
        r == (1000 * num) % den
    IN  IF 2 * r < den THEN q
        ELSE IF 2 * r > den THEN q + 1
        ELSE IF q \in TenthsTiesUp THEN q + 1 ELSE q

\* create_metrics_cards(df): nothing is computed for an empty frame.
create_metrics_cards(df) ==
    IF df = <<>>
    THEN [shown |-> FALSE, total_leads |-> 0, interesse_leads |-> 0,
          taxa_interesse |-> 0, tipos_count |-> <<>>, wind_count |-> 0,
          tresor_count |-> 0]
    ELSE LET total_leads == Len(df)
             interesse_leads == Cardinality({i \in Indices(df) : df[i].interesse})
         IN  [shown |-> TRUE,
              total_leads |-> total_leads,
              interesse_leads |-> interesse_leads,
              taxa_interesse |-> IF total_leads > 0
                                 THEN RateTenths(interesse_leads, total_leads) ELSE 0,
              tipos_count |->
                  [c \in {df[i].tipo : i \in Indices(df)} |->
                      Cardinality({i \in Indices(df) : df[i].tipo = c})],
              wind_count |->
                  Cardinality({i \in Indices(df) : df[i].ref = StrV(WindOceanica)}),
              tresor_count |->
                  Cardinality({i \in Indices(df) : df[i].ref = StrV(TresorCamboinhas)})]

\* Groups of the rows that have a date, by key[i], the key of row i:
\* key -> [total, interesse]
GroupBy(df, key) ==
    LET dated == {i \in Indices(df) : df[i].when.ok}
    IN  [k \in {key[i] : i \in dated} |->
            [total |-> Cardinality({i \in dated : key[i] = k}),
             interesse |-> Cardinality({i \in dated : key[i] = k /\ df[i].interesse})]]

\* create_timeline_chart(df): resample('D') has a bin per day, the empty days
\* are removed; a row without a date falls in no bin.  With such a row in the
\* index pandas may also refuse to resample (natResample = "raise").
create_timeline_chart(df, natResample) ==
    IF df = <<>> THEN [drawn |-> FALSE, raised |-> FALSE, groups |-> <<>>]
    ELSE IF (\E i \in Indices(df) : ~df[i].when.ok) /\ natResample = "raise"
    THEN [drawn |-> FALSE, raised |-> TRUE, groups |-> <<>>]
    ELSE LET day == [i \in Indices(df) |-> DateOf(df[i].when)]
             groups == GroupBy(df, day)
         IN  [drawn |-> groups # <<>>, raised |-> FALSE, groups |-> groups]

\* create_hourly_analysis(df): groupby('Hora') leaves out the rows whose hour
\* is NaN.
create_hourly_analysis(df) ==
    IF df = <<>> \/ AllNaT(df) THEN [drawn |-> FALSE, groups |-> <<>>]
    ELSE LET hour == [i \in Indices(df) |-> df[i].when.H]
         IN  [drawn |-> TRUE, groups |-> GroupBy(df, hour)]

\* date - timedelta(days=n), for a date given by year, month and day
RECURSIVE DaysBefore(_, _, _, _)
DaysBefore(Y, m, d, n) ==
    IF n = 0 THEN Y * 10000 + m * 100 + d
    ELSE IF d > 1 THEN DaysBefore(Y, m, d - 1, n - 1)
    ELSE IF m > 1 THEN DaysBefore(Y, m - 1, DaysInMonth(Y, m - 1), n - 1)
    ELSE DaysBefore(Y - 1, 12, 31, n - 1)

\* data_min and data_max of main(), for a frame with a parsed timestamp
data_min(frame) == SetMin(ParsedDates(frame))
data_max(frame) == SetMax(ParsedDates(frame))

\* value=(data_max - timedelta(days=30), data_max): what the period widget
\* holds until the user picks something
DefaultPeriod(frame) ==
    LET last == data_max(frame)
    IN  <<DaysBefore(last \div 10000, (last \div 100) % 100, last % 100, 30), last>>

\* The default of date_input lies before min_value, which a streamlit release
\* that checks the default refuses.
DefaultRefused(frame, dateInput) ==
    /\ frame # <<>> /\ ~AllNaT(frame)
    /\ dateInput = "strict"
    /\ DefaultPeriod(frame)[1] < data_min(frame)

\* What main() displays when nothing is displayed.
NothingShown(stopped, raised) ==
    [stopped |-> stopped, raised |-> raised, leads |-> 0,
     metrics |-> create_metrics_cards(<<>>),
     timeline |-> create_timeline_chart(<<>>, "drop"),
     hourly |-> create_hourly_analysis(<<>>)]

\* main(), from the loaded frame to what is displayed.  st.stop() ends it on
\* an empty frame.  A streamlit release that checks the default of date_input
\* against min_value (selection.dateInput = "strict") raises when data_max - 30
\* days lies before data_min; an exception of create_timeline_chart ends
\* main() before the hourly analysis.
main(frame, selection) ==
    IF frame = <<>> THEN NothingShown(TRUE, "")
    ELSE IF DefaultRefused(frame, selection.dateInput)
    THEN NothingShown(FALSE, "date_input")
    ELSE LET df == ApplyTipo(ApplyPeriod(frame, selection.periodo),
                             selection.tipo_selecionado)
             timeline == create_timeline_chart(df, selection.natResample)
         IN  [stopped |-> FALSE,
              raised |-> IF timeline.raised THEN "create_timeline_chart" ELSE "",
              leads |-> Len(df),
              metrics |-> create_metrics_cards(df),
              timeline |-> timeline,
              hourly |-> IF timeline.raised THEN create_hourly_analysis(<<>>)
                         ELSE create_hourly_analysis(df)]

(***************************************************************************)
(* Specification of the dashboard: a worksheet is drawn, main() runs on it  *)
(* with a sidebar selection.                                               *)
(***************************************************************************)
At1 == [Y |-> 2024, m |-> 1, d |-> 1, H |-> 9, M |-> 5, S |-> 7]
At2 == [Y |-> 2024, m |-> 2, d |-> 2, H |-> 23, M |-> 0, S |-> 0]

\* Timestamp cells: two written by format_timestamp more than 30 days apart,
\* a blank cell, an ISO date typed by hand, and a date typed by hand without
\* the leading zeros and with a Persian digit seven (U+06F7).
TimestampCells ==
    {format_timestamp(At1), format_timestamp(At2), StrV(<<>>),
     StrV(<<"2","0","2","4","-","0","1","-","0","2">>),
     StrV(<<"3","/","1","/","2","0","2","4"," ","9",":","0","5",":","0","۷">>)}

SheetRecords ==
    {[ts |-> ts, nome |-> StrV(T_Ana), ref |-> StrV(rt[1]), visit |-> StrV(v),
      tipo |-> Cell(rt[2])] :
        ts \in TimestampCells,
        rt \in {<<T_CA12, Casa>>, <<WindOceanica, Lancamento>>},
        v \in {T_Sim, T_Nao}}

RECURSIVE SeqsUpTo(_, _)
SeqsUpTo(S, n) ==
    IF n = 0 THEN {<<>>}
    ELSE LET shorter == SeqsUpTo(S, n - 1)
         IN  shorter \cup {Append(q, x) : q \in shorter, x \in S}

Sheets == [records : SeqsUpTo(SheetRecords, MaxRecords), hasTipo : BOOLEAN]

\* Before main() has run: no selection, nothing displayed.
NoSelection ==
    [tipo_selecionado |-> Cell("Todos"), periodo |-> <<>>, natResample |-> "",
     dateInput |-> ""]
NoView == NothingShown(FALSE, "")

DashboardIdle ==
    /\ sheet = [records |-> <<>>, hasTipo |-> TRUE]
    /\ sel = NoSelection
    /\ view = NoView

\* The dates from a to b, both included.
Days(a, b) ==
    {n \in a..b : /\ (n \div 100) % 100 \in 1..12
                  /\ n % 100 \in 1..DaysInMonth(n \div 10000, (n \div 100) % 100)}

\* What the sidebar can hold when main() runs: 'Todos' or a type of the
\* frame; no period when no timestamp parsed, otherwise the default period,
\* or what the user picked in the calendar, which offers the days from
\* data_min to data_max: both ends, or the first end only while picking.
\* Nothing can be picked in a widget that refuses its default.
Selections(frame) ==
    LET days == Days(data_min(frame), data_max(frame))
        periods ==
            IF frame = <<>> \/ AllNaT(frame) THEN {<<>>}
            ELSE {DefaultPeriod(frame)}
                 \cup {<<a>> : a \in days}
                 \cup {p \in days \X days : p[1] <= p[2]}
    IN  {s \in [tipo_selecionado :
                    {Cell("Todos")} \cup {frame[i].tipo : i \in Indices(frame)},
                periodo : periods,
                natResample : {"drop", "raise"},
                dateInput : {"lenient", "strict"}] :
            DefaultRefused(frame, s.dateInput) => s.periodo = DefaultPeriod(frame)}

\* The sidebar as the first run of main() finds it: every type, and the
\* default period when some timestamp parsed.
DefaultSelections(frame) ==
    {s \in Selections(frame) :
        /\ s.tipo_selecionado = Cell("Todos")
        /\ s.periodo = IF frame = <<>> \/ AllNaT(frame) THEN <<>>
                       ELSE DefaultPeriod(frame)}

(***************************************************************************)
(* The service as a state machine.  Flask serves each request in a thread  *)
(* of its own and the file holds no lock, so a handler is interleaved with *)
(* the others between its calls of the Google API: each                    *)
(* sheet.worksheet(name) of the lookup loop, add_worksheet, the            *)
(* worksheet.update of setup_headers, and append_row or get_all_records.   *)
(* What a handler does between two of these calls touches nothing shared   *)
(* and is part of the step of the call that follows it.                    *)
(***************************************************************************)
NoPayload == OtherPayload("nojson", {})
NoResponse == [status |-> 0, body |-> <<>>]

\* The clients, and a client without a request.  alone tells whether every
\* earlier request was answered when this one arrived, failed whether a call
\* of the Google API that raised ended the request.
Clients == 1..MaxClients
IdleCall ==
    [pc |-> "idle", endpoint |-> "", data |-> NoPayload, i |-> 0, ws |-> "",
     row |-> <<>>, resp |-> NoResponse, alone |-> TRUE, failed |-> FALSE]
ClientsIdle == calls = [p \in Clients |-> IdleCall]

\* The service before any request, on a spreadsheet without worksheets.
ServiceIdle ==
    /\ store = [t \in Titles |-> NoSheet]
    /\ ClientsIdle

\* The classifier before any input.
ClassifierIdle ==
    /\ cin = NoneV
    /\ cresW = "pending"
    /\ cresD = "pending"

\* The spreadsheets before any request: each expected worksheet is missing,
\* blank, or holds the header row only.
Spreadsheets == [Titles -> {NoSheet, BlankSheet, HeaderSheet}]

\* The service starts on a spreadsheet with at most one of the expected
\* worksheets.
Init ==
    /\ store \in {book \in Spreadsheets :
                     Cardinality({t \in Titles : book[t].exists}) <= 1}
    /\ ClientsIdle
    /\ ClassifierIdle
    /\ DashboardIdle

\* datetime.now() one second after now
NextSecond(now) ==
    IF now.S < 59 THEN [now EXCEPT !.S = @ + 1]
    ELSE IF now.M < 59 THEN [now EXCEPT !.S = 0, !.M = @ + 1]
    ELSE IF now.H < 23 THEN [now EXCEPT !.S = 0, !.M = 0, !.H = @ + 1]
    ELSE IF now.d < DaysInMonth(now.Y, now.m)
    THEN [now EXCEPT !.S = 0, !.M = 0, !.H = 0, !.d = @ + 1]
    ELSE IF now.m < 12
    THEN [now EXCEPT !.S = 0, !.M = 0, !.H = 0, !.d = 1, !.m = @ + 1]
    ELSE [now EXCEPT !.S = 0, !.M = 0, !.H = 0, !.d = 1, !.m = 1, !.Y = @ + 1]

\* What a request meets: the fault, the clock as format_timestamp() reads it
\* (now) and as generate_id() reads it afterwards (now_id: the same second or
\* the next), and the random part of the id.
Environments(faults) ==
    {env \in [fault : faults, now : Clock,
               now_id : Clock \cup {NextSecond(n) : n \in Clock}, rnd : RandomParts] :
        env.now_id \in {env.now, NextSecond(env.now)}}

\* What the request of client p meets when it builds and appends its row: the
\* two clock reads, a random part of the id of its own, and the fault if any.
ClientEnvs(p, faults) ==
    {[env EXCEPT !.rnd = <<"A", "7", "Q", Digits[p + 1]>>] :
        env \in Environments(faults)}

\* What a handler answers before it calls get_worksheet, NoResponse if it
\* goes on: the except clause, the missing field, the launch name.
AnswerBeforeStore(endpoint, data) ==
    LET v == IF endpoint = "captura-lancamento"
             THEN Validate(required_fields_lancamento, data)
             ELSE Validate(required_fields_geral, data)
    IN  IF v.r = "raise" THEN [status |-> 500, body |-> ExceptionBody]
        ELSE IF v.r = "missing"
        THEN [status |-> 400, body |-> MissingFieldBody(v.field)]
        ELSE IF endpoint = "captura-lancamento" /\ ~launch_name_ok(data)
        THEN [status |-> 400, body |-> InvalidLaunchBody]
        ELSE NoResponse

\* The row the handler of the endpoint builds, and its answer after the append.
RowOf(endpoint, data, env) ==
    IF endpoint = "captura-lancamento" THEN row_data_lancamento(data, env)
    ELSE row_data_geral(data, env)
CapturedBody(endpoint, data, row_data) ==
    IF endpoint = "captura-lancamento" THEN lancamento_capturado(data, row_data)
    ELSE imovel_capturado(data, row_data)

\* The request of a client once the handler has returned.
Answered(call, status, body) ==
    [call EXCEPT !.pc = "done", !.resp = [status |-> status, body |-> body],
                 !.i = 0, !.ws = ""]

\* The request of a client once the handler has returned 500 because a call
\* of the Google API raised.
StoreFailed(call, body) == [Answered(call, 500, body) EXCEPT !.failed = TRUE]

\* The request that arrives for client p at the endpoint.  The clients are
\* served in their order: client p + 1 has no request before client p has one.
Arrived(p, endpoint) ==
    [IdleCall EXCEPT !.endpoint = endpoint,
                     !.alone = \A q \in Clients \ {p} : calls[q].pc \in {"idle", "done"}]
CanArrive(p) ==
    /\ calls[p].pc = "idle"
    /\ \A q \in Clients : q < p => calls[q].pc # "idle"

ServiceRest == <<cvars, dvars>>

\* A POST of client p arrives at an intake endpoint with one of the payloads:
\* the payload is validated, get_worksheet opens the spreadsheet
\* (get_google_client, open_by_key).
Arrive(p, payloads) ==
    /\ CanArrive(p)
    /\ \E endpoint \in {"captura-lancamento", "captura-imovel-geral"},
          data \in payloads, fault \in {"none", "client"} :
          LET early == AnswerBeforeStore(endpoint, data)
              call == [Arrived(p, endpoint) EXCEPT !.data = data]
          IN  calls' = [calls EXCEPT ![p] =
                  IF early # NoResponse THEN Answered(call, early.status, early.body)
                  ELSE IF fault = "client" THEN StoreFailed(call, NoWorksheetBody)
                  ELSE [call EXCEPT !.pc = "lookup", !.i = 1]]
    /\ UNCHANGED <<store, ServiceRest>>

\* A POST of client p arrives while other requests may be in progress.
Receive(p) == Arrive(p, SeqPayloads)

\* GET /dados-dashboard of client p arrives: get_worksheet opens the
\* spreadsheet.
ReceiveRead(p) ==
    /\ CanArrive(p)
    /\ \E fault \in {"none", "client"} :
          LET call == Arrived(p, "dados-dashboard")
          IN  calls' = [calls EXCEPT ![p] =
                  IF fault = "client" THEN StoreFailed(call, NoWorksheetBody)
                  ELSE [call EXCEPT !.pc = "lookup", !.i = 1]]
    /\ UNCHANGED <<store, ServiceRest>>

\* What the handler does with the worksheet get_worksheet returned.
UseWorksheet(endpoint) == IF endpoint = "dados-dashboard" THEN "read" ELSE "append"

\* get_worksheet: sheet.worksheet(worksheet_names[i]) of the lookup loop.  The
\* loop goes on to the next name when the call raises, for a missing title
\* or for any other reason.
Lookup(p) ==
    /\ calls[p].pc = "lookup"
    /\ \E fault \in {"none", "lookup"} :
          LET name == worksheet_names[calls[p].i]
          IN  calls' = [calls EXCEPT ![p] =
                  IF store[name].exists /\ fault = "none"
                  THEN [@ EXCEPT !.ws = name, !.i = 0,
                                 !.pc = UseWorksheet(calls[p].endpoint)]
                  ELSE IF calls[p].i < Len(worksheet_names)
                  THEN [@ EXCEPT !.i = @ + 1]
                  ELSE [@ EXCEPT !.i = 0, !.pc = "add"]]
    /\ UNCHANGED <<store, ServiceRest>>

\* get_worksheet: sheet.add_worksheet(title="Leads_Todos_Imoveis").  When the
\* call raises, as it does for a title that exists, get_worksheet returns
\* None and the answer is 500.
AddWorksheet(p) ==
    /\ calls[p].pc = "add"
    /\ \E fault \in {"none", "add"} :
          IF fault = "add" \/ store["Leads_Todos_Imoveis"].exists
          THEN /\ calls' = [calls EXCEPT ![p] = StoreFailed(@, NoWorksheetBody)]
               /\ UNCHANGED store
          ELSE /\ store' = [store EXCEPT !["Leads_Todos_Imoveis"] = BlankSheet]
               /\ calls' = [calls EXCEPT ![p] =
                      [@ EXCEPT !.ws = "Leads_Todos_Imoveis", !.pc = "headers"]]
    /\ UNCHANGED ServiceRest

\* get_worksheet: setup_headers(worksheet).  When worksheet.update raises,
\* get_worksheet returns None and the answer is 500.
SetupHeaders(p) ==
    /\ calls[p].pc = "headers"
    /\ \E fault \in {"none", "headers"} :
          IF fault = "headers"
          THEN /\ calls' = [calls EXCEPT ![p] = StoreFailed(@, NoWorksheetBody)]
               /\ UNCHANGED store
          ELSE /\ store' = [store EXCEPT ![calls[p].ws].rows = setup_headers(@)]
               /\ calls' = [calls EXCEPT ![p] =
                      [@ EXCEPT !.pc = UseWorksheet(calls[p].endpoint)]]
    /\ UNCHANGED ServiceRest

\* The intake handlers after get_worksheet: the row is built and
\* worksheet.append_row(row_data) is called; the answer is 200, or 500 from
\* the except clause when the call raises.
AppendRow(p) ==
    /\ calls[p].pc = "append"
    /\ \E env \in ClientEnvs(p, {"none", "append"}) :
          LET row_data == RowOf(calls[p].endpoint, calls[p].data, env)
          IN  IF env.fault = "append"
              THEN /\ calls' = [calls EXCEPT ![p] = StoreFailed(@, ExceptionBody)]
                   /\ UNCHANGED store
              ELSE /\ store' = [store EXCEPT ![calls[p].ws].rows =
                                    append_row(@, row_data)]
                   /\ calls' = [calls EXCEPT ![p] =
                          Answered([@ EXCEPT !.row = row_data], 200,
                                   CapturedBody(calls[p].endpoint, calls[p].data,
                                                row_data))]
    /\ UNCHANGED ServiceRest

\* dados_dashboard after get_worksheet: worksheet.get_all_records() and the
\* answer computed from it, or 500 from the except clause when the call
\* raises.
ReadRecords(p) ==
    /\ calls[p].pc = "read"
    /\ \E env \in Environments({"none", "read"}) :
          LET data == get_all_records(store[calls[p].ws].rows)
          IN  calls' = [calls EXCEPT ![p] =
                  IF env.fault = "read" THEN StoreFailed(@, ExceptionBody)
                  ELSE IF data = <<>> THEN Answered(@, 200, EmptyAnswer(env.now))
                  ELSE Answered(@, 200, FullAnswer(data, env.now))]
    /\ UNCHANGED <<store, ServiceRest>>

\* Any step of any request in progress, or the arrival of one.
Next ==
    \E p \in Clients :
        \/ Receive(p)
        \/ ReceiveRead(p)
        \/ Lookup(p)
        \/ AddWorksheet(p)
        \/ SetupHeaders(p)
        \/ AppendRow(p)
        \/ ReadRecords(p)

Spec == Init /\ [][Next]_vars

(***************************************************************************)
(* One intake request alone, with every payload, on every spreadsheet: the *)
(* steps of the handler of client 1.                                       *)
(***************************************************************************)
\* The POST arrives with any payload.
ReceiveAlone == Arrive(1, Payloads)

NextCall ==
    \/ ReceiveAlone
    \/ Lookup(1)
    \/ AddWorksheet(1)
    \/ SetupHeaders(1)
    \/ AppendRow(1)

\* The single request meets any of the spreadsheets.
CallInit ==
    /\ store \in Spreadsheets
    /\ ClientsIdle
    /\ ClassifierIdle
    /\ DashboardIdle

SpecCall == CallInit /\ [][NextCall]_vars

(***************************************************************************)
(* Specification of the classifier: an input is drawn, each side's         *)
(* function is applied to it.                                              *)
(***************************************************************************)
ClassifyInit ==
    /\ cin \in ClassifierInputs
    /\ cresW = "pending"
    /\ cresD = "pending"
    /\ ServiceIdle
    /\ DashboardIdle

ClassifyWebhook ==
    /\ cresW = "pending"
    /\ cresW' = identify_property_type(cin)
    /\ UNCHANGED <<cin, cresD>>
    /\ UNCHANGED <<svars, dvars>>

ClassifyDashboard ==
    /\ cresD = "pending"
    /\ cresD' = identify_property_type_dashboard(cin)
    /\ UNCHANGED <<cin, cresW>>
    /\ UNCHANGED <<svars, dvars>>

ClassifyNext == ClassifyWebhook \/ ClassifyDashboard

SpecClassify == ClassifyInit /\ [][ClassifyNext]_vars

(***************************************************************************)
(* Specification of the dashboard: main() runs once on a loaded worksheet. *)
(***************************************************************************)
DashboardInit ==
    /\ sheet \in Sheets
    /\ sel = NoSelection
    /\ view = NoView
    /\ ServiceIdle
    /\ ClassifierIdle

\* A run of main() on the loaded worksheet with what the user set in the
\* sidebar.
DashboardMain ==
    /\ sel = NoSelection
    /\ get_data_from_sheets(sheet) # <<>>
    /\ \E s \in Selections(get_data_from_sheets(sheet))
                 \ DefaultSelections(get_data_from_sheets(sheet)) :
          /\ sel' = s
          /\ view' = main(get_data_from_sheets(sheet), s)
    /\ UNCHANGED <<sheet, cvars, svars>>

\* The first run of main() on the loaded worksheet, with nothing chosen in
\* the sidebar.
DashboardMainDefault ==
    /\ sel = NoSelection
    /\ \E s \in DefaultSelections(get_data_from_sheets(sheet)) :
          /\ sel' = s
          /\ view' = main(get_data_from_sheets(sheet), s)
    /\ UNCHANGED <<sheet, cvars, svars>>

DashboardNext == DashboardMain \/ DashboardMainDefault

SpecDashboard == DashboardInit /\ [][DashboardNext]_vars

(***************************************************************************)
(* Properties of the intake endpoints.                                     *)
(***************************************************************************)
IntakeOps == {"captura-lancamento", "captura-imovel-geral"}

\* The lead rows of a worksheet: every row but the header row.
LeadRows(ws) == SelectSeq(ws.rows, LAMBDA r : r # headers)

\* All lead rows of the spreadsheet.
AllLeadRows(book) ==
    UNION {{LeadRows(book[t])[i] : i \in 1..Len(LeadRows(book[t]))} : t \in Titles}

RECURSIVE SumOver(_, _)
SumOver(f, S) ==
    IF S = {} THEN 0
    ELSE LET x == CHOOSE y \in S : TRUE IN f[x] + SumOver(f, S \ {x})

LeadCount(book) == SumOver([t \in Titles |-> Len(LeadRows(book[t]))], Titles)

\* The required fields of the endpoint, and the one carrying the reference.
RequiredOf(endpoint) ==
    IF endpoint = "captura-lancamento" THEN required_fields_lancamento
    ELSE required_fields_geral

\* The contract's view of a payload: a field is missing or empty when the
\* payload is no JSON object, lacks the key, or holds "", null or false.
FieldEmpty(data, field) ==
    data.kind # "dict" \/ data.val[field] \in {AbsentV, StrV(<<>>), NoneV, FalseV}

EmptyFields(endpoint, data) ==
    {i \in 1..Len(RequiredOf(endpoint)) : FieldEmpty(data, RequiredOf(endpoint)[i])}

\* The payload passes validation: a JSON object with the five fields filled
\* and, for a launch, one of the two campaign names.
PayloadValid(endpoint, data) ==
    /\ EmptyFields(endpoint, data) = {}
    /\ endpoint = "captura-lancamento" =>
          data.val["lancamento"] \in {StrV(WindOceanica), StrV(TresorCamboinhas)}

IsMissingFieldError(r) ==
    /\ r.status = 400
    /\ r.body.error.msg = "Campo obrigatório ausente"

\* The requests answered so far, by kind.
IsDone(p) == calls[p].pc = "done"
IsIntake(p) == calls[p].endpoint \in IntakeOps
IsRead(p) == calls[p].endpoint = "dados-dashboard"
Acked == {p \in Clients : IsIntake(p) /\ IsDone(p) /\ calls[p].resp.status = 200}

\* No request has arrived while another was in progress.
Sequential == \A p \in Clients : calls[p].alone

\* One step of C1, for the intake request of client p that takes it.
C1_Step ==
    \A p \in Clients :
        (calls'[p] # calls[p] /\ calls'[p].endpoint \in IntakeOps) =>
            LET answered == calls'[p].pc = "done"
                status == calls'[p].resp.status
            IN  /\ answered => status \in {200, 400, 500}
                /\ (answered /\ status = 200) =>
                      \E t \in Titles :
                          /\ store'[t].rows = Append(store[t].rows, calls'[p].row)
                          /\ \A u \in Titles \ {t} : store'[u] = store[u]
                /\ (answered /\ status \in {400, 500}) => store' = store
                /\ ~answered =>
                      \A t \in Titles :
                          \/ store'[t].rows = store[t].rows
                          \/ store'[t].rows = setup_headers(store[t].rows)

\* C1: whatever the requests and however they overlap, the step that answers
\* an intake request with 200 appends exactly one row, the row of that
\* request, at the end of one worksheet and changes nothing else; the step
\* that answers one with 400 or 500 leaves the spreadsheet as it was; no
\* other step of an intake request appends a row, and an answered request
\* takes no further step, so none appends twice.
C1_OneAppendPerAck == [][C1_Step]_vars

\* C1 witness: two intake requests overlapped; one was answered 200 and its
\* row is the only lead row of the spreadsheet, the other was answered 500
\* after its append_row raised.
C1_Witness ==
    \E p, q \in Clients :
        /\ p # q
        /\ ~Sequential
        /\ IsIntake(p) /\ IsDone(p) /\ calls[p].resp.status = 200
        /\ IsIntake(q) /\ IsDone(q) /\ calls[q].resp = [status |-> 500, body |-> ExceptionBody]
        /\ calls[q].failed
        /\ AllLeadRows(store) = {calls[p].row}

\* C2: every intake request ends with status 400 exactly when its payload
\* fails validation (an absent or non-object payload fails it), whatever the
\* state of the spreadsheet; with 500 exactly when the payload is valid and
\* the spreadsheet cannot be reached or the append fails; with 200 otherwise.
C2_ThreeOutcomes ==
    \A p \in Clients :
        (IsIntake(p) /\ IsDone(p)) =>
            LET status == calls[p].resp.status
                valid == PayloadValid(calls[p].endpoint, calls[p].data)
            IN  /\ status \in {200, 400, 500}
                /\ (status = 400) <=> ~valid
                /\ (status = 500) <=> (valid /\ calls[p].failed)
                /\ (status = 200) <=> (valid /\ ~calls[p].failed)

\* C3: an intake request is rejected with the missing-field validation error
\* exactly when a required field is missing or empty, the error names the
\* first such field in the order of required_fields, and a payload with the
\* five fields filled is never rejected for a missing field.
C3_FirstMissingField ==
    \A p \in Clients :
        (IsIntake(p) /\ IsDone(p)) =>
            LET empty == EmptyFields(calls[p].endpoint, calls[p].data)
            IN  /\ IsMissingFieldError(calls[p].resp) <=> (empty # {})
                /\ IsMissingFieldError(calls[p].resp) =>
                      calls[p].resp.body.error.field =
                          RequiredOf(calls[p].endpoint)[SetMin(empty)]

\* One step of C4, for the request to the launch endpoint that it answers.
C4_Step ==
    \A p \in Clients :
        (/\ calls'[p] # calls[p]
         /\ calls'[p].endpoint = "captura-lancamento"
         /\ calls'[p].pc = "done") =>
            LET data == calls'[p].data
                named == InList(data.val["lancamento"], valid_launches)
                empty == EmptyFields("captura-lancamento", data)
            IN  /\ ~named =>
                      /\ calls[p].pc = "idle"
                      /\ store' = store
                      /\ calls'[p].resp.status = 400
                /\ empty # {} => IsMissingFieldError(calls'[p].resp)
                /\ (empty = {} /\ ~named) =>
                      calls'[p].resp.body.error.msg = "Lançamento deve ser"
                /\ \A r \in AllLeadRows(store') :
                      r[7] = Cell("IA Gabriela - Lançamento") =>
                          r[4] \in {StrV(WindOceanica), StrV(TresorCamboinhas)}

\* C4: a launch request whose launch name is not exactly 'Wind Oceanica' or
\* 'Tresor Camboinhas', whatever its body, is answered on arrival, before any
\* call of the spreadsheet, with a validation error (status 400) and leaves
\* the spreadsheet as it was; a request with a missing or empty required
\* field is answered with the missing-field error, whatever its launch name,
\* and one with the five fields filled and another name with the launch-name
\* error; every row written by the launch endpoint carries one of the two
\* names as its reference.
C4_InvalidLaunchRejected == [][C4_Step]_vars

\* C5: every lead row of the spreadsheet has a non-blank type cell equal to
\* the classifier's answer for the reference cell of the same row.
C5_TypeDerivable ==
    \A r \in AllLeadRows(store) :
        /\ r[10] # StrV(<<>>)
        /\ r[10] = Cell(identify_property_type(r[4]))

(***************************************************************************)
(* Properties of a series of intake requests followed by a read.           *)
(***************************************************************************)
\* The worksheet get_worksheet selects when every call succeeds: the first
\* expected title that exists, "" for none.
Selected(book) ==
    LET there == {i \in 1..Len(worksheet_names) : book[worksheet_names[i]].exists}
    IN  IF there = {} THEN "" ELSE worksheet_names[SetMin(there)]

\* No request is in progress.
Quiet == \A p \in Clients : calls[p].pc \in {"idle", "done"}

\* C12: starting without lead records, after any series of intake requests
\* none of which overlaps another request, the worksheet used for appends has
\* the 10-column header as its first row, and an aggregate read answered with
\* 200 reports total_leads equal to the number of intake requests
\* acknowledged with status 200 before it.
C12_HeaderFirstAndTotalMatches ==
    Sequential =>
        /\ (Quiet /\ Acked # {}) =>
              /\ Selected(store) # ""
              /\ store[Selected(store)].rows # <<>>
              /\ store[Selected(store)].rows[1] = headers
        /\ \A p \in Clients :
              (IsRead(p) /\ IsDone(p) /\ calls[p].resp.status = 200) =>
                  calls[p].resp.body.total_leads = Cardinality({q \in Acked : q < p})

(***************************************************************************)
(* Properties of concurrent intake.                                        *)
(***************************************************************************)
\* The row is a row of some worksheet of the spreadsheet.
InStore(row) ==
    \E title \in Titles : \E i \in 1..Len(store[title].rows) : store[title].rows[i] = row

\* C11: under every interleaving of concurrent intake requests, the row of
\* every request acknowledged with status 200 is still in the spreadsheet: no
\* other request's provisioning or header write overwrites or removes it.
C11_AcknowledgedLeadsStay ==
    \A p \in Acked : InStore(calls[p].row)

(***************************************************************************)
(* Properties of the aggregate read endpoint.                              *)
(***************************************************************************)
\* C8: no step of a request to the aggregate read endpoint changes the
\* spreadsheet, whatever worksheets it holds: none is created, no row is
\* written.
C8_ReadOnly ==
    [][\A p \in Clients :
          (calls'[p] # calls[p] /\ calls'[p].endpoint = "dados-dashboard") =>
              store' = store]_vars

\* The keys of the answer for a non-empty sheet.
FullAnswerKeys ==
    {"status", "total_leads", "interesse_visita", "taxa_interesse", "wind_oceanica",
     "tresor_camboinhas", "tipos_imovel", "dados", "ultima_atualizacao"}

\* C10: the aggregate read of a sheet without records answers with every
\* field of the full answer, each at its zero or empty value.
C10_EmptyAggregateComplete ==
    \A p \in Clients :
        (/\ IsRead(p) /\ IsDone(p)
         /\ calls[p].resp.status = 200
         /\ calls[p].resp.body.total_leads = 0) =>
            /\ DOMAIN calls[p].resp.body = FullAnswerKeys
            /\ calls[p].resp.body.interesse_visita = 0
            /\ calls[p].resp.body.taxa_interesse = 0
            /\ calls[p].resp.body.wind_oceanica = 0
            /\ calls[p].resp.body.tresor_camboinhas = 0
            /\ calls[p].resp.body.tipos_imovel = <<>>
            /\ calls[p].resp.body.dados = <<>>

(***************************************************************************)
(* Properties of the dashboard.                                            *)
(***************************************************************************)
\* main() has run on the loaded worksheet.
DashboardRan == sel # NoSelection

\* The rows of the frame the selection asks for when a row without a date is
\* not removed by the date range: the type matches, and the date, if there is
\* one and a range is in force, lies in the range.
RowsKeepingUnparsed(frame, selection) ==
    {i \in Indices(frame) :
        /\ \/ selection.tipo_selecionado = Cell("Todos")
           \/ frame[i].tipo = selection.tipo_selecionado
        /\ \/ ~frame[i].when.ok
           \/ AllNaT(frame)
           \/ Len(selection.periodo) # 2
           \/ /\ DateOf(frame[i].when) >= selection.periodo[1]
              /\ DateOf(frame[i].when) <= selection.periodo[2]}

\* C9: a record whose timestamp did not parse is in no daily and no hourly
\* group, and is still counted in the totals (leads, leads with interest, leads
\* per type) whenever it satisfies the type filter: the date range does not
\* remove it.
C9_UnparsedKeptInTotals ==
    (DashboardRan /\ ~view.stopped /\ view.raised # "date_input") =>
        LET frame == get_data_from_sheets(sheet)
            rows == RowsKeepingUnparsed(frame, sel)
            dated == {i \in rows : frame[i].when.ok}
        IN  /\ view.leads = Cardinality(rows)
            /\ rows # {} =>
                  /\ view.metrics.shown
                  /\ view.metrics.total_leads = Cardinality(rows)
                  /\ view.metrics.interesse_leads =
                        Cardinality({i \in rows : frame[i].interesse})
                  /\ \A c \in {frame[i].tipo : i \in rows} :
                        /\ c \in DOMAIN view.metrics.tipos_count
                        /\ view.metrics.tipos_count[c] =
                              Cardinality({i \in rows : frame[i].tipo = c})
            /\ \A k \in DOMAIN view.timeline.groups :
                  view.timeline.groups[k].total =
                      Cardinality({i \in dated : DateOf(frame[i].when) = k})
            /\ \A h \in DOMAIN view.hourly.groups :
                  view.hourly.groups[h].total =
                      Cardinality({i \in dated : frame[i].when.H = h})

(***************************************************************************)
(* Properties of the classifier.                                           *)
(***************************************************************************)
\* The normal form both sides classify: upper-cased, then trimmed.
Normalized(v) == Strip(Upper(PyStr(v)))

\* The rule table of the classifier's contract, in its fixed order.
RuleMatches(i, n) ==
    CASE i = 1 -> StartsWith(n, W_CA)
      [] i = 2 -> StartsWith(n, W_AP)
      [] i = 3 -> StartsWith(n, W_TR)
      [] i = 4 -> StartsWith(n, W_CO)
      [] i = 5 -> n = W_WIND_UP \/ n = W_TRESOR_UP
      [] i = 6 -> Contains(n, W_CASA)
      [] i = 7 -> Contains(n, W_APARTAMENTO) \/ Contains(n, W_APT)
      [] i = 8 -> Contains(n, W_TERRENO)
      [] i = 9 -> Contains(n, W_COMERCIAL) \/ Contains(n, W_LOJA)
                    \/ Contains(n, W_SALA)
      [] i = 10 -> Contains(n, W_LANCAMENTO_CED) \/ Contains(n, W_LANCAMENTO)
RuleType ==
    <<Casa, Apartamento, Terreno, Comercial, Lancamento,
      Casa, Apartamento, Terreno, Comercial, Lancamento>>
FirstMatch(n) ==
    LET hits == {i \in 1..Len(RuleType) : RuleMatches(i, n)}
    IN  IF hits = {} THEN Outros ELSE RuleType[SetMin(hits)]

\* The results computed so far, one per side.
ClassifierResults == {cresW, cresD} \ {"pending"}

\* C6: on either side, a non-empty reference gets the type of the first rule
\* that matches it in the fixed order; in particular a reference that starts,
\* once upper-cased and trimmed, with CA, AP, TR or CO is Casa, Apartamento,
\* Terreno or Comercial whatever else it contains.
C6_PrefixRulesWin ==
    (cin.k = "str" /\ cin.s # <<>>) =>
        \A r \in ClassifierResults :
            /\ r = FirstMatch(Normalized(cin))
            /\ StartsWith(Normalized(cin), W_CA) => r = Casa
            /\ StartsWith(Normalized(cin), W_AP) => r = Apartamento
            /\ StartsWith(Normalized(cin), W_TR) => r = Terreno
            /\ StartsWith(Normalized(cin), W_CO) => r = Comercial

\* C6 witness: both sides have classified a reference that starts with "co"
\* and contains the keyword CASA, and both answered Comercial.
C6_Witness ==
    /\ cin.k = "str"
    /\ StartsWith(Normalized(cin), W_CO)
    /\ Contains(Normalized(cin), W_CASA)
    /\ cresW = Comercial
    /\ cresD = Comercial

\* C7: for a reference that is text or absent, each side answers Indefinido
\* exactly when the reference is None or the empty string, answers Outros for
\* a non-empty reference no rule matches, and the two sides agree.
C7_UndefinedIffEmpty ==
    (cin.k \in {"str", "none"}) =>
        /\ \A r \in ClassifierResults :
              /\ (r = Indefinido) <=> (cin = NoneV \/ cin = StrV(<<>>))
              /\ (cin.k = "str" /\ cin.s # <<>>
                    /\ \A i \in 1..Len(RuleType) : ~RuleMatches(i, Normalized(cin)))
                 => r = Outros
        /\ (cresW # "pending" /\ cresD # "pending") => cresW = cresD

=============================================================================
